---- MODULE Spec2Model ----
(***************************************************************************)
(* Reconciliation engine of the clan bot: role sync with settling          *)
(* (discord/roleSync.ts), the war-day period key and day inference, the    *)
(* rollover tracker and the snapshot history (jobs/war.ts).                *)
(*                                                                         *)
(* An optional value (undefined in the source) is a set with at most one   *)
(* element: {} is undefined, {v} is the value v.                           *)
(***************************************************************************)
EXTENDS Integers, Sequences, FiniteSets, TLC

VARIABLES
    \* ---- role sync (discord/roleSync.ts) ----
    linked,      \* user_links: the linked Discord accounts
    roles,       \* account -> the Discord roles the member holds
    pending,     \* account -> job_state role_sync:pending:<id>, optional {desired, n}
    \* observations of the role-sync passes (history, not program state)
    lastRank,    \* account -> rank the roster reported at the latest pass
    prevRank,    \* account -> rank the roster reported at the pass before
    lastCmd,     \* account -> role-set issued at the latest pass ("nocmd" if none)
    prevCmd,     \* account -> role-set issued at the pass before
    runLen,      \* account -> length of the current run of equal ranks (capped)
    runCmds,     \* account -> role-sets issued during the current run (capped)
    runCorrect,  \* account -> alreadyCorrect held at the second pass of the run
    baseOk,      \* account -> before the latest pass the roles matched prevRank
    flap,        \* account -> the latest two passes were X then O again, with the
                 \* roles matching O and O reported before X
    hadFail,     \* account -> some downstream call failed for the account
    resolved,    \* the accounts guild.members.fetch resolved at the latest pass
    reached,     \* the accounts the loop of the latest pass came to
    \* ---- day inference as a function (jobs/war.ts) ----
    inferArg,    \* the payload and participants inferWarDayIndex is called with
    inferOut,    \* optional: the result of the call, once made
    \* ---- rollover tracker (jobs/war.ts), job_state rows ----
    periodLastKey,    \* war:period:last_key, optional
    lastCapture,      \* war:period:last_capture, optional
    snapLastKey,      \* war:day_snapshot:last_key, optional
    lastSnapshot,     \* war:day_snapshot:last_snapshot, optional
    history,          \* war:day_snapshot:history
    lastParticipants, \* war:last_participants, optional
    lastPeriodType,   \* war:last_period_type, optional
    \* the war-logs channel and the clock
    posts,            \* the day summaries delivered to the war-logs channel
    clock,            \* the time, in ticks
    \* observations of the tracker steps (history, not program state)
    phase,            \* the shape of the keys polled so far: "none", then "A" while
                      \* every poll gave one key, "AB" once a second key followed and
                      \* stayed, "other" after that
    lastA,            \* optional: the time, key, payload and participants of the
                      \* latest poll of phase A
    appends,          \* the keys handed to appendSnapshotHistory, in order
    closed,           \* the battle-day periods whose rollover was detected
    trackFail,        \* some call of a tracker step failed
    tickEmits,        \* the latest tracker step posted or appended something
    tickSame,         \* the latest tracker step found the key of the step before
    \* ---- replay of one snapshot sequence ----
    script,           \* the snapshot sequence that is replayed
    pos,              \* the index of the next snapshot of the script
    run,              \* 0 when nothing is replayed, else the run (1, 2) in progress
    \* ---- a colosseum week as the upstream reports it ----
    realDay,          \* the real war day
    weekDecks,        \* participant -> decks used in the week so far
    dayDecks,         \* participant -> decks used on the real day
    hasToday,         \* the payloads carry the per-day counter
    seen,             \* optional: the real day and the key of the latest poll
    prevSeen,         \* optional: the real day and the key of the poll before
    \* ---- the snapshot history store on its own ----
    store,            \* the entries of war:day_snapshot:history
    storeKeys,        \* the number of distinct keys appended so far
    storeRepeated,    \* the one append out of the ordinary was made
    storeLatest,      \* key -> optional: the entry of the latest append for the key
    \* ---- one days-ago lookup in the snapshot history ----
    queryArg,         \* the stored history, the time of the call and the days asked for
    queryOut,         \* optional: the result of the call (the entry picked, or none)
    \* ---- the period key as a function (jobs/war.ts) ----
    keyArg,           \* the payload currentPeriodKey is called with
    keyOut,           \* optional: the key it returned
    keyOther,         \* the participants of a second snapshot of the same payload
    keyOtherOut,      \* optional: the key of that second snapshot
    keyJudged,        \* optional: the day inferred for keyArg and whether it is a battle day
    \* ---- one role-sync pass, link by link ----
    loopRest,         \* the links the loop of the pass has still to take, in order
    loopRoster,       \* the roster the pass fetched
    loopAt,           \* optional: the account of the latest iteration
    \* ---- the open-spot announcements (jobs/spots.ts) ----
    spotsLast,        \* optional: the row spots:last_announced_open_slots
    spotsOpen,        \* optional: the open slots the latest completed poll computed
    spotsBefore,      \* optional: the open slots of the completed poll before it
    spotsSent,        \* the latest poll called send
    spotsChannel,     \* the latest poll was not denied the announcement channel
    spotsDone,        \* the latest poll returned (it was not ended by a rejection)
    spotsPolls,       \* the number of polls so far
    \* ---- the time-based war-day reminder (jobs/war.ts, pollWarOnce) ----
    remDate,          \* the local calendar date in the configured time zone
    remInMinute,      \* the local time is within the configured minute
    remLastDate,      \* optional: the row war:war_day_notification:last_date
    remSent,          \* date -> the reminders delivered on that date
    remTick,          \* optional: the date (zoned.ymd) of a tick waiting on its send
    remSkipped,       \* the latest tick made no send
    remBoots,         \* the number of restarts of the process
    \* ---- the callbacks of one process, step by step between their awaits ----
    boots,            \* the number of times the process was started
    upstream,         \* the payload the current-river-race endpoint returns
    procs,            \* "prime", "poll" -> position, payload fetched, capture read
    startupTask,      \* position of the startup task of the ready handler
    cronSync,         \* position of the role-sync cron callback
    crashed,          \* the process once stopped while a finalize was in progress
    polledSinceBoot,  \* a tracker step ran to its end since the latest start
    \* ---- ticks whose upstream fetch fails ----
    tickAbandoned     \* the latest tick was abandoned on a failed upstream fetch

roleVars == <<linked, roles, pending, lastRank, prevRank, lastCmd,
              prevCmd, runLen, runCmds, runCorrect, baseOk, flap, hadFail, resolved,
              reached>>

inferVars == <<inferArg, inferOut>>

trackerVars == <<periodLastKey, lastCapture, snapLastKey, lastSnapshot, history,
                 lastParticipants, lastPeriodType, posts, clock, phase, lastA, appends,
                 closed, trackFail, tickEmits, tickSame>>

replayVars == <<script, pos, run>>

worldVars == <<realDay, weekDecks, dayDecks, hasToday, seen, prevSeen>>

storeVars == <<store, storeKeys, storeRepeated, storeLatest>>

queryVars == <<queryArg, queryOut>>

keyVars == <<keyArg, keyOut, keyOther, keyOtherOut, keyJudged>>

loopVars == <<loopRest, loopRoster, loopAt>>

spotsVars == <<spotsLast, spotsOpen, spotsBefore, spotsSent, spotsChannel, spotsDone, spotsPolls>>

reminderVars == <<remDate, remInMinute, remLastDate, remSent, remTick, remSkipped, remBoots>>

asyncVars == <<boots, upstream, procs, startupTask, cronSync, crashed, polledSinceBoot>>

upstreamVars == <<tickAbandoned>>

vars == <<roleVars, inferVars, trackerVars, replayVars, worldVars, storeVars, queryVars, keyVars, loopVars, spotsVars, reminderVars, asyncVars, upstreamVars>>

(***************************************************************************)
(* Optional values                                                         *)
(***************************************************************************)
None == {}
Some(v) == {v}
IsDef(o) == o # {}
Val(o) == CHOOSE v \in o : TRUE

Min(a, b) == IF a < b THEN a ELSE b
Max(a, b) == IF a > b THEN a ELSE b

(***************************************************************************)
(* Role sync                                                               *)
(***************************************************************************)
AllAccounts == {"u1", "u2"}

\* ClashClanMemberRole; "absent" stands for clanMember?.role being undefined
\* (the linked tag is not in the roster).
ClanRoles == {"member", "elder", "coLeader", "leader"}
Ranks == ClanRoles \cup {"absent"}

\* The configured role ids, named by the role they stand for.
RoleIds == ClanRoles \cup {"vanquished"}

\* The length up to which a run of equal ranks is counted.
MaxRun == 3

roleIdForClanRole(role) == role

allClanRoleIds == ClanRoles

currentClanRoleKey(ids) ==
    IF "leader" \in ids THEN "leader"
    ELSE IF "coLeader" \in ids THEN "coLeader"
    ELSE IF "elder" \in ids THEN "elder"
    ELSE IF "member" \in ids THEN "member"
    ELSE "absent"

desiredKeyFromClanRole(role) == IF role = "absent" THEN "vanquished" ELSE role

\* roleSync.ts: const alreadyCorrect = current === desired && ...
alreadyCorrect(ids, rank) ==
    LET desired == desiredKeyFromClanRole(rank)
        current == desiredKeyFromClanRole(currentClanRoleKey(ids))
        hasVanquished == "vanquished" \in ids
        currentVanquished == hasVanquished /\ current = "vanquished"
        desiredVanquished == desired = "vanquished"
    IN  current = desired /\ currentVanquished = desiredVanquished

\* The role calls applyMemberRoles makes for these roles and this rank.
ApplyOps == {"vanq", "remove", "add"}

toRemove(ids, clanRole) ==
    {rid \in allClanRoleIds : rid \in ids /\ rid # clanRole}

attemptedOps(ids, clanRole) ==
    LET hasVanquished == "vanquished" \in ids
        shouldBeVanquished == clanRole = "absent"
    IN  (IF shouldBeVanquished # hasVanquished THEN {"vanq"} ELSE {})
        \cup (IF toRemove(ids, clanRole) # {} THEN {"remove"} ELSE {})
        \cup (IF clanRole # "absent" /\ roleIdForClanRole(clanRole) \notin ids
              THEN {"add"} ELSE {})

\* applyMemberRoles: each call is caught separately, so a failed call (in fails)
\* leaves the roles it would have changed as they were.
applyMemberRoles(ids, clanRole, fails) ==
    LET hasVanquished == "vanquished" \in ids
        shouldBeVanquished == clanRole = "absent"
        ok(op) == op \notin fails
        s1 == IF shouldBeVanquished
              THEN (IF ~hasVanquished /\ ok("vanq") THEN ids \cup {"vanquished"} ELSE ids)
              ELSE (IF hasVanquished /\ ok("vanq") THEN ids \ {"vanquished"} ELSE ids)
        s2 == IF toRemove(ids, clanRole) # {} /\ ok("remove")
              THEN s1 \ toRemove(ids, clanRole) ELSE s1
        s3 == IF clanRole # "absent" /\ roleIdForClanRole(clanRole) \notin ids /\ ok("add")
              THEN s2 \cup {roleIdForClanRole(clanRole)} ELSE s2
    IN  s3

\* The settle counter written at roleSync.ts:96.
SettleCap == 5

\* The threshold of roleSync.ts:98 (if (nextN < 2) continue).
SettleThreshold == 2

\* nextPending leaving the settle state alone when the roles are already correct.
nextPendingWithoutRefresh(ids, pend, rank) ==
    LET desired == desiredKeyFromClanRole(rank)
        pendingDesired == IF IsDef(pend) THEN Some(Val(pend).desired) ELSE None
        n == IF IsDef(pend) THEN Val(pend).n ELSE 0
    IN  IF alreadyCorrect(ids, rank) THEN pend
        ELSE IF pendingDesired # Some(desired) THEN Some([desired |-> desired, n |-> 1])
        ELSE Some([desired |-> desired, n |-> Min(n + 1, SettleCap)])

\* nextPending counting without the cap.
nextPendingUncapped(ids, pend, rank) ==
    LET desired == desiredKeyFromClanRole(rank)
        pendingDesired == IF IsDef(pend) THEN Some(Val(pend).desired) ELSE None
        n == IF IsDef(pend) THEN Val(pend).n ELSE 0
    IN  IF alreadyCorrect(ids, rank) THEN Some([desired |-> desired, n |-> 2])
        ELSE IF pendingDesired # Some(desired) THEN Some([desired |-> desired, n |-> 1])
        ELSE Some([desired |-> desired, n |-> n + 1])

\* The pending state one pass writes for an account that was resolved.
nextPending(ids, pend, rank) ==
    LET desired == desiredKeyFromClanRole(rank)
        pendingDesired == IF IsDef(pend) THEN Some(Val(pend).desired) ELSE None
        n == IF IsDef(pend) THEN Val(pend).n ELSE 0
    IN  IF alreadyCorrect(ids, rank) THEN Some([desired |-> desired, n |-> 2])
        ELSE IF pendingDesired # Some(desired) THEN Some([desired |-> desired, n |-> 1])
        ELSE Some([desired |-> desired, n |-> Min(n + 1, SettleCap)])

\* reachesApply without the settling: the roles are applied at the first pass that
\* finds them wrong.
reachesApplyUnsettled(ids, pend, rank) == ~alreadyCorrect(ids, rank)

\* Whether the pass reaches applyMemberRoles for the account (roleSync.ts:100).
reachesApply(ids, pend, rank) ==
    /\ ~alreadyCorrect(ids, rank)
    /\ IsDef(pend)
    /\ Val(pend).desired = desiredKeyFromClanRole(rank)
    /\ Val(nextPending(ids, pend, rank)).n >= SettleThreshold

\* One iteration of the loop of syncRolesOnce for account a: its new roles, its new
\* pending state and the role-set issued, if any.
syncAccount(ids, pend, rank, fetched, fails) ==
    IF ~fetched THEN [roles |-> ids, pending |-> pend, cmd |-> "nocmd"]
    ELSE [roles   |-> IF reachesApply(ids, pend, rank)
                      THEN applyMemberRoles(ids, rank, fails) ELSE ids,
          pending |-> nextPending(ids, pend, rank),
          cmd     |-> IF reachesApply(ids, pend, rank)
                      THEN desiredKeyFromClanRole(rank) ELSE "nocmd"]

\* The loop of syncRolesOnce takes the rows of user_links in the order of the SELECT:
\* the accounts the loop takes before account a.
EarlierInLoop(a) == IF a = "u2" THEN {"u1"} ELSE {}

\* A loop that ends at the first account whose member fetch or role-set failed.
loopStopsAtFailure(failedBefore) == failedBefore = {}

\* Whether the loop comes to an account, given the accounts before it whose member
\* fetch or role-set failed: every rejection is caught (roleSync.ts:53, 140-153), so
\* the loop goes on.
loopReaches(failedBefore) == TRUE

\* syncRolesOnce: the roster is fetched, then every linked account is processed.
\* roster: the rank of each account's tag; fetched: the accounts guild.members.fetch
\* resolves; fails: per account, the role calls that reject.
syncRolesOnceWith(roster, fetched, fails) ==
        LET res(a) == syncAccount(roles[a], pending[a], roster[a], a \in fetched, fails[a])
            failed(a) == \/ a \notin fetched
                         \/ /\ res(a).cmd # "nocmd"
                            /\ fails[a] \cap attemptedOps(roles[a], roster[a]) # {}
            on(a) == /\ a \in linked
                     /\ loopReaches({b \in linked \cap EarlierInLoop(a) : failed(b)})
            newRun(a) == IF lastRank[a] = roster[a] THEN Min(runLen[a] + 1, MaxRun) ELSE 1
        IN
        \* a call that is not made cannot fail
        /\ \A a \in linked :
              /\ fails[a] \subseteq attemptedOps(roles[a], roster[a])
              /\ (a \notin fetched \/ ~reachesApply(roles[a], pending[a], roster[a]))
                    => fails[a] = {}
        /\ roles' = [a \in AllAccounts |-> IF on(a) THEN res(a).roles ELSE roles[a]]
        /\ pending' = [a \in AllAccounts |-> IF on(a) THEN res(a).pending ELSE pending[a]]
        /\ lastRank' = [a \in AllAccounts |-> IF on(a) THEN roster[a] ELSE lastRank[a]]
        /\ prevRank' = [a \in AllAccounts |-> IF on(a) THEN lastRank[a] ELSE prevRank[a]]
        /\ lastCmd' = [a \in AllAccounts |-> IF on(a) THEN res(a).cmd ELSE lastCmd[a]]
        /\ prevCmd' = [a \in AllAccounts |-> IF on(a) THEN lastCmd[a] ELSE prevCmd[a]]
        /\ runLen' = [a \in AllAccounts |-> IF on(a) THEN newRun(a) ELSE runLen[a]]
        /\ runCmds' = [a \in AllAccounts |->
              IF ~on(a) THEN runCmds[a]
              ELSE LET c == IF res(a).cmd # "nocmd" THEN 1 ELSE 0
                   IN  IF newRun(a) = 1 THEN c ELSE Min(runCmds[a] + c, 2)]
        /\ runCorrect' = [a \in AllAccounts |->
              IF ~on(a) THEN runCorrect[a]
              ELSE IF newRun(a) = 2 /\ runLen[a] = 1
                   THEN alreadyCorrect(roles[a], roster[a])
                   ELSE IF newRun(a) = 1 THEN FALSE ELSE runCorrect[a]]
        /\ baseOk' = [a \in AllAccounts |->
              IF ~on(a) THEN baseOk[a]
              ELSE lastRank[a] \in Ranks /\ alreadyCorrect(roles[a], lastRank[a])]
        /\ flap' = [a \in AllAccounts |->
              IF ~on(a) THEN flap[a]
              ELSE /\ baseOk[a]
                   /\ prevRank[a] = roster[a]
                   /\ lastRank[a] # roster[a]]
        /\ hadFail' = [a \in AllAccounts |-> IF on(a) THEN hadFail[a] \/ failed(a) ELSE hadFail[a]]
        /\ resolved' = {a \in fetched : on(a)}
        /\ reached' = {a \in linked : on(a)}
        /\ UNCHANGED linked

SyncRolesOnce ==
    \E roster \in [linked -> Ranks],
       fetched \in SUBSET linked,
       fails \in [linked -> SUBSET ApplyOps] :
        syncRolesOnceWith(roster, fetched, fails)

\* syncRolesOnce when getClanMembers rejects: the pass ends at its first statement.
SyncRolesAbandoned ==
    UNCHANGED roleVars

\* A fresh database (no pending state), one linked account whose Discord roles are
\* any combination of the five managed roles.
RoleInit ==
    /\ linked = {"u1"}
    /\ roles \in {f \in [AllAccounts -> SUBSET RoleIds] : f["u2"] = {}}
    /\ pending = [a \in AllAccounts |-> None]
    /\ lastRank = [a \in AllAccounts |-> "nopoll"]
    /\ prevRank = [a \in AllAccounts |-> "nopoll"]
    /\ lastCmd = [a \in AllAccounts |-> "nocmd"]
    /\ prevCmd = [a \in AllAccounts |-> "nocmd"]
    /\ runLen = [a \in AllAccounts |-> 0]
    /\ runCmds = [a \in AllAccounts |-> 0]
    /\ runCorrect = [a \in AllAccounts |-> FALSE]
    /\ baseOk = [a \in AllAccounts |-> FALSE]
    /\ flap = [a \in AllAccounts |-> FALSE]
    /\ hadFail = [a \in AllAccounts |-> FALSE]
    /\ resolved = {}
    /\ reached = {}

(***************************************************************************)
(* Role sync: claims                                                       *)
(***************************************************************************)
\* The roles an account should hold for a roster rank: the one clan role of the
\* rank, or only the non-member role when the tag is not in the roster.
ExactRoles(rank) == IF rank = "absent" THEN {"vanquished"} ELSE {rank}

\* C1 (as stated): once the roster has reported the same rank R on two or more passes
\* in a row, with no downstream failure, exactly one role-set to R was issued in that
\* run of passes.
C1_ExactlyOneRoleSet ==
    \A a \in linked :
        (~hadFail[a] /\ runLen[a] >= 2) => runCmds[a] = 1

\* C1 (amended): once the roster has reported the same rank R on two or more passes in
\* a row, with no downstream failure, the run of passes issued exactly one role-set to
\* R when the already-correct test failed at the second pass of the run, and none when
\* that test held (the account's roles matched R already).
C1_OneRoleSetUnlessAlreadyCorrect ==
    \A a \in linked :
        (~hadFail[a] /\ runLen[a] >= 2) =>
            runCmds[a] = (IF runCorrect[a] THEN 0 ELSE 1)

\* C1 witness: a rank reported on three passes in a row, applied by one role-set at
\* the second of them and by none at the third.
C1_Witness ==
    \E a \in linked :
        /\ ~hadFail[a]
        /\ runLen[a] = MaxRun
        /\ runCmds[a] = 1
        /\ ~runCorrect[a]
        /\ lastCmd[a] = "nocmd"
        /\ prevCmd[a] = desiredKeyFromClanRole(lastRank[a])

\* C2: no-flap. When the roles match the roster rank O, a pass that reports X # O
\* followed by a pass that reports O again issues no role-set at either pass.
C2_NoFlap ==
    \A a \in linked :
        flap[a] => (lastCmd[a] = "nocmd" /\ prevCmd[a] = "nocmd")

\* C3: a role-set to R is issued at a pass only if the roster reported R at this pass
\* and at the roster pass immediately before it.
C3_Hysteresis ==
    \A a \in linked :
        lastCmd[a] # "nocmd" =>
            /\ lastCmd[a] = desiredKeyFromClanRole(lastRank[a])
            /\ prevRank[a] = lastRank[a]

\* C4: once the roster has reported the same rank on two passes in a row, with no
\* downstream failure, the account holds exactly the roles of that rank.
C4_ExactlyOneRole ==
    \A a \in linked :
        (~hadFail[a] /\ runLen[a] >= 2) => roles[a] = ExactRoles(lastRank[a])

(***************************************************************************)
(* War day inference and the period key (jobs/war.ts)                      *)
(***************************************************************************)
\* The periodType strings of the payloads considered, and what
\* .trim().toLowerCase() makes of them.
PeriodTypeRaw == {"warDay", "colosseum", "training"}

Lower(s) ==
    CASE s = "warDay" -> "warday"
      [] s = "colosseum" -> "colosseum"
      [] s = "training" -> "training"
      [] OTHER -> s

\* periodType.includes('war'), periodType.includes('train')
IncludesWar(pt) == pt \in {"warday"}
IncludesTrain(pt) == pt \in {"training"}

\* Decks a participant may use per war day (maxTotal % 4, / 4).
DecksPerDay == 4

\* The last valid war day index (clampWarDayIndex: i > 5).
LastWarDay == 5

\* toFiniteInt: the payload numbers of the model are integers, which Math.trunc keeps;
\* an undefined field stays undefined.
toFiniteInt(v) == IF IsDef(v) THEN Some(Val(v)) ELSE None

clampWarDayIndex(n) ==
    IF ~IsDef(n) THEN None
    ELSE IF Val(n) < 1 \/ Val(n) > LastWarDay THEN None
    ELSE n

\* CeilDiv rounding down instead of up.
CeilDivRoundsDown(x, d) == x \div d

\* Math.ceil(x / 4) and Math.floor(x / 4) for x >= 0
CeilDiv(x, d) == (x + d - 1) \div d
FloorDiv(x, d) == x \div d

\* extractParticipants, per participant: decksUsed falls back to decksUsedToday.
extractParticipant(raw) ==
    [decksUsed |-> IF IsDef(raw.decksUsed) THEN raw.decksUsed ELSE raw.decksUsedToday,
     decksUsedToday |-> raw.decksUsedToday]

extractParticipants(payload) ==
    [i \in 1..Len(payload.participants) |-> extractParticipant(payload.participants[i])]

\* The loop of inferWarDayIndex over participants.values(), from participant i on.
RECURSIVE colosseumScan(_, _, _)
colosseumScan(participants, i, acc) ==
    IF i > Len(participants) THEN acc
    ELSE LET snap == participants[i]
             total == IF IsDef(snap.decksUsed) THEN Val(snap.decksUsed) ELSE 0
             todayDefined == IsDef(snap.decksUsedToday)
             today == IF todayDefined THEN Val(snap.decksUsedToday) ELSE 0
         IN  colosseumScan(participants, i + 1,
                [maxTotal |-> IF total > acc.maxTotal THEN total ELSE acc.maxTotal,
                 maxToday |-> IF today > acc.maxToday THEN today ELSE acc.maxToday,
                 anyTodayObserved |-> acc.anyTodayObserved \/ todayDefined])

\* isResetBoundary without the test of the per-day counters.
isResetBoundaryIgnoringToday(scan) ==
    /\ scan.maxTotal > 0
    /\ scan.maxTotal % DecksPerDay = 0

isResetBoundary(scan) ==
    /\ scan.anyTodayObserved
    /\ scan.maxToday = 0
    /\ scan.maxTotal > 0
    /\ scan.maxTotal % DecksPerDay = 0

\* The colosseum branch of inferWarDayIndex.
inferColosseumDay(participants) ==
    LET scan == colosseumScan(participants, 1,
                    [maxTotal |-> 0, maxToday |-> 0, anyTodayObserved |-> FALSE])
        inferred == IF isResetBoundary(scan)
                    THEN FloorDiv(scan.maxTotal, DecksPerDay) + 1
                    ELSE Max(1, CeilDiv(IF scan.maxTotal = 0 THEN 1 ELSE scan.maxTotal,
                                        DecksPerDay))
    IN  clampWarDayIndex(Some(inferred))

\* retryLastSnapshot.ts: the same inference over a stored snapshot.
inferColosseumDayIndexFromSnapshot(snapshot) ==
    IF Len(snapshot) = 0 THEN None
    ELSE LET scan == colosseumScan(snapshot, 1,
                        [maxTotal |-> 0, maxToday |-> 0, anyTodayObserved |-> FALSE])
             resetBoundary == /\ scan.anyTodayObserved
                              /\ scan.maxToday = 0
                              /\ scan.maxTotal > 0
                              /\ scan.maxTotal % DecksPerDay = 0
             inferred == IF resetBoundary
                         THEN FloorDiv(scan.maxTotal, DecksPerDay) + 1
                         ELSE Max(1, CeilDiv(IF scan.maxTotal = 0 THEN 1 ELSE scan.maxTotal,
                                             DecksPerDay))
         IN  IF inferred < 1 \/ inferred > LastWarDay THEN None ELSE Some(inferred)

payloadPeriodType(payload) ==
    IF IsDef(payload.periodType) THEN Some(Lower(Val(payload.periodType))) ELSE None

directDayIndex(payload) ==
    IF IsDef(toFiniteInt(payload.dayIndex)) THEN toFiniteInt(payload.dayIndex)
    ELSE toFiniteInt(payload.warDay)

\* inferWarDayIndex taking the deck counters for every period type.
inferWarDayIndexFromDecks(payload, participants) ==
    inferColosseumDay(participants)

inferWarDayIndex(payload, participants) ==
    LET periodType == payloadPeriodType(payload)
        state == IF IsDef(payload.state) THEN Some(Lower(Val(payload.state))) ELSE None
        direct == directDayIndex(payload)
        sectionIndex == toFiniteInt(payload.sectionIndex)
        isWarBattlePeriod ==
            \/ periodType = Some("warday")
            \/ (IsDef(periodType) /\ IncludesWar(Val(periodType))
                    /\ periodType # Some("colosseum"))
            \/ (~IsDef(periodType) /\ state = Some("warday"))
    IN  IF periodType = Some("colosseum") THEN inferColosseumDay(participants)
        ELSE IF IsDef(direct) THEN clampWarDayIndex(direct)
        ELSE IF IsDef(sectionIndex)
                /\ Val(sectionIndex) >= 1 /\ Val(sectionIndex) <= 5 THEN sectionIndex
        ELSE IF IsDef(sectionIndex) /\ isWarBattlePeriod
                /\ Val(sectionIndex) >= 0 /\ Val(sectionIndex) <= 4
             THEN clampWarDayIndex(Some(Val(sectionIndex) + 1))
        ELSE None

\* The key `${periodType}:${sectionIndex ?? 'na'}:${dayIndex ?? 'na'}`, kept as its
\* three components; an undefined component is the 'na' of the string.
currentPeriodKey(payload, participants) ==
    LET periodType == IF IsDef(payloadPeriodType(payload))
                      THEN Val(payloadPeriodType(payload)) ELSE "unknown"
        sectionIndex == toFiniteInt(payload.sectionIndex)
        direct == directDayIndex(payload)
        inferredDayIndex == IF ~IsDef(direct)
                            THEN inferWarDayIndex(payload, participants) ELSE None
        dayIndex == IF IsDef(direct) THEN direct ELSE inferredDayIndex
    IN  [periodType |-> periodType, sectionIndex |-> sectionIndex, dayIndex |-> dayIndex]

isRegularWarBattleDay(payload) ==
    LET periodType == payloadPeriodType(payload)
        idx == IF IsDef(directDayIndex(payload)) THEN directDayIndex(payload)
               ELSE toFiniteInt(payload.sectionIndex)
    IN  IF IsDef(idx) THEN Val(idx) >= 1 /\ Val(idx) <= 5
        ELSE IF periodType = Some("warday") \/ periodType = Some("colosseum") THEN TRUE
        ELSE IF IsDef(periodType) /\ IncludesWar(Val(periodType))
                /\ ~IncludesTrain(Val(periodType)) THEN TRUE
        ELSE FALSE

(***************************************************************************)
(* Rollover tracker and snapshot history (jobs/war.ts)                     *)
(***************************************************************************)
\* writeSnapshotHistory: const MAX = 50
MAX_HISTORY == 50

\* A slice that trims nothing.
SliceLastKeepsAll(entries, n) == entries

\* entries.slice(-MAX)
SliceLast(entries, n) ==
    IF Len(entries) <= n THEN entries
    ELSE SubSeq(entries, Len(entries) - n + 1, Len(entries))

\* A filter that removes nothing.
FilterKeyKeepsAll(entries, key) == entries

\* entries.filter((e) => e?.key !== key)
RECURSIVE FilterKey(_, _)
FilterKey(entries, key) ==
    IF entries = <<>> THEN <<>>
    ELSE IF Head(entries).key # key THEN <<Head(entries)>> \o FilterKey(Tail(entries), key)
    ELSE FilterKey(Tail(entries), key)

\* appendSnapshotHistory followed by writeSnapshotHistory.
appendSnapshotHistory(entries, entry) ==
    SliceLast(Append(FilterKey(entries, entry.key), entry), MAX_HISTORY)

\* serializeParticipants / the parse back into a Map: the tags are kept, so the
\* snapshots are kept in order.
serializeParticipants(current) == current

\* The job_state rows of the tracker as one record.
TrackerDb ==
    [periodLastKey |-> periodLastKey, lastCapture |-> lastCapture,
     snapLastKey |-> snapLastKey, lastSnapshot |-> lastSnapshot, history |-> history]

\* The outcomes of the Discord calls of postWarDaySnapshotFromCaptured: all succeed;
\* a fetch or the render rejects; the channel is missing or not a text channel; the
\* render is not ok; channel.send rejects (and is caught).
PostOutcomes == {"ok", "throw", "nochannel", "renderfail", "sendfail"}

\* The snapshot key `warDay:${periodKey}`: the period key under the fixed prefix.
snapshotKeyOf(periodKey) == periodKey

\* postWarDaySnapshotFromCaptured without the test of the battle day.
postWarDaySnapshotOfAnyPeriod(db, key, endAt, payload, current, now, outcome) ==
    LET untouched == [db |-> db, post |-> None, appended |-> FALSE]
        payloadDayIndex == inferWarDayIndex(payload, current)
        serialized == serializeParticipants(current)
        entry == [key |-> key, endAt |-> endAt, capturedAt |-> now,
                  periodType |-> payload.periodType, dayIndex |-> payloadDayIndex,
                  snapshot |-> serialized]
    IN  IF db.snapLastKey = Some(key) THEN untouched
        ELSE IF outcome \in {"throw", "nochannel"} THEN untouched
        ELSE [db |-> [db EXCEPT !.lastSnapshot = Some(serialized),
                                !.snapLastKey = Some(key),
                                !.history = appendSnapshotHistory(db.history, entry)],
              post |-> IF outcome = "ok"
                       THEN Some([key |-> key, endAt |-> endAt, snapshot |-> serialized])
                       ELSE None,
              appended |-> TRUE]

\* postWarDaySnapshotFromCaptured: the rows it writes (db), the summary it delivers
\* (post) and whether it appended to the history.
postWarDaySnapshotFromCaptured(db, key, endAt, payload, current, now, outcome) ==
    LET untouched == [db |-> db, post |-> None, appended |-> FALSE]
        payloadDayIndex == inferWarDayIndex(payload, current)
        serialized == serializeParticipants(current)
        entry == [key |-> key, endAt |-> endAt, capturedAt |-> now,
                  periodType |-> payload.periodType, dayIndex |-> payloadDayIndex,
                  snapshot |-> serialized]
    IN  IF db.snapLastKey = Some(key) THEN untouched
        ELSE IF outcome \in {"throw", "nochannel"} THEN untouched
        ELSE IF ~isRegularWarBattleDay(payload) THEN untouched
        ELSE [db |-> [db EXCEPT !.lastSnapshot = Some(serialized),
                                !.snapLastKey = Some(key),
                                !.history = appendSnapshotHistory(db.history, entry)],
              post |-> IF outcome = "ok"
                       THEN Some([key |-> key, endAt |-> endAt, snapshot |-> serialized])
                       ELSE None,
              appended |-> TRUE]

\* A guard that never takes a key change for a migration.
isKeyMigrationNever(lastKey, prevPayload, prevMap, payload, current) == FALSE

\* The guard without its test of the stored key (endsWith(':na')).
isKeyMigrationWhateverKey(lastKey, prevPayload, prevMap, payload, current) ==
    LET prevDay == inferWarDayIndex(prevPayload, prevMap)
        nowDay == inferWarDayIndex(payload, current)
    IN  /\ IsDef(prevDay)
        /\ IsDef(nowDay)
        /\ prevDay = nowDay
        /\ toFiniteInt(prevPayload.sectionIndex) = toFiniteInt(payload.sectionIndex)
        /\ payloadPeriodType(prevPayload) = payloadPeriodType(payload)

\* The guard of maybePostSnapshotOnPeriodChange against a key change that only comes
\* from stored keys without a day index.
isKeyMigrationOnly(lastKey, prevPayload, prevMap, payload, current) ==
    LET prevDay == inferWarDayIndex(prevPayload, prevMap)
        nowDay == inferWarDayIndex(payload, current)
    IN  /\ lastKey.dayIndex = None
        /\ IsDef(prevDay)
        /\ IsDef(nowDay)
        /\ prevDay = nowDay
        /\ toFiniteInt(prevPayload.sectionIndex) = toFiniteInt(payload.sectionIndex)
        /\ payloadPeriodType(prevPayload) = payloadPeriodType(payload)

\* Whether this step sees a period change it has a capture for.
rolloverDetected(db, payload, current) ==
    /\ IsDef(db.periodLastKey)
    /\ db.periodLastKey # Some(currentPeriodKey(payload, current))
    /\ IsDef(db.lastCapture)

\* Whether this step calls postWarDaySnapshotFromCaptured.
closesPeriod(db, payload, current) ==
    /\ rolloverDetected(db, payload, current)
    /\ ~isKeyMigrationOnly(Val(db.periodLastKey), Val(db.lastCapture).payload,
                           Val(db.lastCapture).snapshot, payload, current)

\* captureNow keeping the first capture of a period instead of the latest.
captureNowKeepsFirst(db, payload, current, now) ==
    IF db.periodLastKey = Some(currentPeriodKey(payload, current)) /\ IsDef(db.lastCapture)
    THEN Val(db.lastCapture)
    ELSE [capturedAt |-> now, periodKey |-> currentPeriodKey(payload, current),
          payload |-> payload, snapshot |-> serializeParticipants(current)]

\* The capture persisted at the end of the step.
captureNow(db, payload, current, now) ==
    [capturedAt |-> now, periodKey |-> currentPeriodKey(payload, current),
     payload |-> payload, snapshot |-> serializeParticipants(current)]

\* maybePostSnapshotOnPeriodChange persisting no capture at the first step.
maybePostWithoutFirstCapture(db, payload, current, now, outcome) ==
    LET keyNow == currentPeriodKey(payload, current)
        parsed == Val(db.lastCapture)
        posted == IF closesPeriod(db, payload, current)
                  THEN postWarDaySnapshotFromCaptured(db, snapshotKeyOf(parsed.periodKey),
                            parsed.capturedAt, parsed.payload, parsed.snapshot, now, outcome)
                  ELSE [db |-> db, post |-> None, appended |-> FALSE]
    IN  [db |-> [posted.db EXCEPT !.periodLastKey = Some(keyNow),
                                  !.lastCapture = IF IsDef(db.periodLastKey)
                                                  THEN Some(captureNow(db, payload, current, now))
                                                  ELSE db.lastCapture],
         post |-> posted.post,
         appended |-> posted.appended]

\* maybePostSnapshotOnPeriodChange letting the error of a finalize end the step.
maybePostAbortingOnThrow(db, payload, current, now, outcome) ==
    LET keyNow == currentPeriodKey(payload, current)
        parsed == Val(db.lastCapture)
        posted == IF closesPeriod(db, payload, current)
                  THEN postWarDaySnapshotFromCaptured(db, snapshotKeyOf(parsed.periodKey),
                            parsed.capturedAt, parsed.payload, parsed.snapshot, now, outcome)
                  ELSE [db |-> db, post |-> None, appended |-> FALSE]
    IN  IF /\ closesPeriod(db, payload, current)
           /\ db.snapLastKey # Some(snapshotKeyOf(parsed.periodKey))
           /\ outcome = "throw"
        THEN [db |-> db, post |-> None, appended |-> FALSE]
        ELSE [db |-> [posted.db EXCEPT !.periodLastKey = Some(keyNow),
                                       !.lastCapture = Some(captureNow(db, payload, current, now))],
              post |-> posted.post,
              appended |-> posted.appended]

\* maybePostSnapshotOnPeriodChange
maybePostSnapshotOnPeriodChange(db, payload, current, now, outcome) ==
    LET keyNow == currentPeriodKey(payload, current)
        parsed == Val(db.lastCapture)
        posted == IF closesPeriod(db, payload, current)
                  THEN postWarDaySnapshotFromCaptured(db, snapshotKeyOf(parsed.periodKey),
                            parsed.capturedAt, parsed.payload, parsed.snapshot, now, outcome)
                  ELSE [db |-> db, post |-> None, appended |-> FALSE]
    IN  [db |-> [posted.db EXCEPT !.periodLastKey = Some(keyNow),
                                  !.lastCapture = Some(captureNow(db, payload, current, now))],
         post |-> posted.post,
         appended |-> posted.appended]

(***************************************************************************)
(* Rollover tracker: the polls                                             *)
(***************************************************************************)
\* The number of ticks (polls, startups) of a run.
MaxTicks == 4

\* A payload with one participant.
TP(pt, day, section, decks, today) ==
    [periodType |-> Some(pt), state |-> None, dayIndex |-> day, warDay |-> None,
     sectionIndex |-> section,
     participants |-> <<[decksUsed |-> Some(decks), decksUsedToday |-> today]>>]

\* The payloads of the current river race the polls may return: war day 1 at two
\* moments, war day 2, a training day (no battle day), a colosseum day 1 and the
\* colosseum just after its first daily reset.
TrackerPayloads ==
    {TP("warDay", Some(1), None, 1, None),
     TP("warDay", Some(1), None, 2, None),
     TP("warDay", Some(2), None, 2, None),
     TP("training", None, Some(0), 0, None),
     TP("colosseum", None, None, 4, Some(4)),
     TP("colosseum", None, None, 4, Some(0))}

\* Whether the step reaches the Discord calls of postWarDaySnapshotFromCaptured.
reachesPost(db, payload, current) ==
    /\ closesPeriod(db, payload, current)
    /\ db.snapLastKey # Some(snapshotKeyOf(Val(db.lastCapture).periodKey))

\* The outcomes the Discord calls of this step can have.
possibleOutcomes(db, payload, current) ==
    IF ~reachesPost(db, payload, current) THEN {"ok"}
    ELSE IF ~isRegularWarBattleDay(Val(db.lastCapture).payload)
         THEN {"ok", "throw", "nochannel"}
    ELSE PostOutcomes

\* The shape of the sequence of keys polled, after a poll that gives keyNow.
nextPhase(keyNow) ==
    CASE phase = "none" -> "A"
      [] phase = "A" -> IF Some(keyNow) = periodLastKey THEN "A" ELSE "AB"
      [] phase = "AB" -> IF Some(keyNow) = periodLastKey THEN "AB" ELSE "other"
      [] OTHER -> "other"

\* One call of maybePostSnapshotOnPeriodChange at the current time, with what it is
\* observed to do.
TrackerStep(payload, outcome) ==
    \E current \in {extractParticipants(payload)} :
    \E keyNow \in {currentPeriodKey(payload, current)} :
    \E res \in {maybePostSnapshotOnPeriodChange(TrackerDb, payload, current, clock, outcome)} :
    \E closesBattleDay \in
            {/\ closesPeriod(TrackerDb, payload, current)
             /\ isRegularWarBattleDay(Val(lastCapture).payload)} :
        /\ periodLastKey' = res.db.periodLastKey
        /\ lastCapture' = res.db.lastCapture
        /\ snapLastKey' = res.db.snapLastKey
        /\ lastSnapshot' = res.db.lastSnapshot
        /\ history' = res.db.history
        /\ posts' = IF IsDef(res.post) THEN Append(posts, Val(res.post)) ELSE posts
        /\ phase' = nextPhase(keyNow)
        /\ lastA' = IF nextPhase(keyNow) = "A"
                    THEN Some([at |-> clock, key |-> keyNow,
                               payload |-> payload, snapshot |-> current])
                    ELSE lastA
        /\ appends' = IF res.appended
                      THEN Append(appends, snapshotKeyOf(Val(lastCapture).periodKey))
                      ELSE appends
        /\ closed' = IF closesBattleDay
                     THEN Append(closed, Val(lastCapture).periodKey)
                     ELSE closed
        /\ trackFail' = (trackFail \/ outcome # "ok")
        /\ tickEmits' = (res.appended \/ IsDef(res.post))
        /\ tickSame' = (periodLastKey = Some(keyNow))
        /\ clock' = clock + 1

\* pollWarOnce, with WAR_DAY_NOTIFICATION_TIME unset: the channel and the payload are
\* fetched, the tracker step runs, then the participants and the period type are saved.
pollWarOnceWith(payload, outcome) ==
    /\ TrackerStep(payload, outcome)
    /\ lastParticipants' = Some(serializeParticipants(extractParticipants(payload)))
    /\ lastPeriodType' = IF IsDef(payload.periodType) /\ lastPeriodType # payload.periodType
                         THEN payload.periodType ELSE lastPeriodType

PollWarOnce ==
    /\ clock < MaxTicks
    /\ \E payload \in TrackerPayloads :
        \E outcome \in possibleOutcomes(TrackerDb, payload, extractParticipants(payload)) :
            pollWarOnceWith(payload, outcome)

\* A tick that fails only after the tracker step has run.
PollWarAbandonedAfterCapture ==
    /\ clock < MaxTicks
    /\ \E payload \in TrackerPayloads :
          /\ TrackerStep(payload, "ok")
          /\ UNCHANGED <<lastParticipants, lastPeriodType>>

\* pollWarOnce when the guild, the channel or the payload cannot be fetched: the tick
\* ends before anything is read or written.
PollWarAbandoned ==
    /\ clock < MaxTicks
    /\ trackFail' = TRUE
    /\ tickEmits' = FALSE
    /\ tickSame' = FALSE
    /\ UNCHANGED <<periodLastKey, lastCapture, snapLastKey, lastSnapshot, history,
                   lastParticipants, lastPeriodType, posts, clock, phase, lastA,
                   appends, closed>>

\* primeWarDaySnapshotSchedule, run at startup: a tracker step on the payload fetched.
PrimeWarDaySnapshotSchedule ==
    /\ clock = 0
    /\ \E payload \in TrackerPayloads :
        \E outcome \in possibleOutcomes(TrackerDb, payload, extractParticipants(payload)) :
            /\ TrackerStep(payload, outcome)
            /\ UNCHANGED <<lastParticipants, lastPeriodType>>

\* The number of polls of a run over the payload shapes.
MaxShapeTicks == 3

\* The shapes of payload the endpoint is seen to return: war days with an explicit
\* day index; war days with a section index only; a war day without any index; a
\* training day; colosseum days without indices; colosseum days whose dayIndex is not
\* an index of the day.
ShapePayloads ==
    {TP("warDay", Some(1), None, 1, None),
     TP("warDay", Some(2), None, 2, None),
     TP("warDay", None, Some(0), 1, None),
     TP("warDay", None, Some(1), 1, None),
     TP("warDay", None, None, 1, None),
     TP("training", None, Some(0), 0, None),
     TP("colosseum", None, None, 4, Some(4)),
     TP("colosseum", None, None, 8, None),
     TP("colosseum", Some(3), None, 4, None),
     TP("colosseum", Some(2), None, 4, None)}

\* pollWarOnce on a payload of one of the shapes, every Discord call succeeding.
PollShapes ==
    /\ clock < MaxShapeTicks
    /\ \E payload \in ShapePayloads : pollWarOnceWith(payload, "ok")

\* A database with no job_state rows.
TrackerInit ==
    /\ periodLastKey = None
    /\ lastCapture = None
    /\ snapLastKey = None
    /\ lastSnapshot = None
    /\ history = <<>>
    /\ lastParticipants = None
    /\ lastPeriodType = None
    /\ posts = <<>>
    /\ clock = 0
    /\ phase = "none"
    /\ lastA = None
    /\ appends = <<>>
    /\ closed = <<>>
    /\ trackFail = FALSE
    /\ tickEmits = FALSE
    /\ tickSame = FALSE

(***************************************************************************)
(* The tracker started on the rows an older version left                   *)
(***************************************************************************)
\* The payloads an older version, which inferred no day for a colosseum week, may
\* have captured last.
UpgradePayloads == {p \in TrackerPayloads : payloadPeriodType(p) = Some("colosseum")}

\* The period key the older version stored for a payload: no day component (":na").
oldVersionKey(payload) ==
    [currentPeriodKey(payload, extractParticipants(payload)) EXCEPT !.dayIndex = None]

\* The rows after the upgrade: war:period:last_key and war:period:last_capture as the
\* older version wrote them at its last poll; nothing was ever finalized.
UpgradeInit ==
    /\ \E payload \in UpgradePayloads :
          /\ periodLastKey = Some(oldVersionKey(payload))
          /\ lastCapture = Some([capturedAt |-> 0, periodKey |-> oldVersionKey(payload),
                                  payload |-> payload,
                                  snapshot |-> serializeParticipants(extractParticipants(payload))])
          /\ lastParticipants = Some(serializeParticipants(extractParticipants(payload)))
          /\ lastPeriodType = payload.periodType
    /\ snapLastKey = None
    /\ lastSnapshot = None
    /\ history = <<>>
    /\ posts = <<>>
    /\ clock = 1
    /\ phase = "none"
    /\ lastA = None
    /\ appends = <<>>
    /\ closed = <<>>
    /\ trackFail = FALSE
    /\ tickEmits = FALSE
    /\ tickSame = FALSE

\* The startup after the upgrade: primeWarDaySnapshotSchedule.
PrimeAfterUpgrade ==
    /\ clock = 1
    /\ \E payload \in TrackerPayloads :
        \E outcome \in possibleOutcomes(TrackerDb, payload, extractParticipants(payload)) :
            /\ TrackerStep(payload, outcome)
            /\ UNCHANGED <<lastParticipants, lastPeriodType>>

(***************************************************************************)
(* Replay of one snapshot sequence against the checkpoints of an earlier   *)
(* run of it                                                               *)
(***************************************************************************)
\* The length of the snapshot sequences replayed.
MaxScript == 2

Scripts == UNION {[1..n -> TrackerPayloads] : n \in 1..MaxScript}

ReplayInit ==
    /\ script \in Scripts
    /\ pos = 1
    /\ run = 1

ReplayIdle ==
    /\ script = <<>>
    /\ pos = 0
    /\ run = 0

\* The next snapshot of the script is polled; every Discord call succeeds.
ReplayPoll ==
    /\ run \in {1, 2}
    /\ pos <= Len(script)
    /\ clock < MaxTicks
    /\ pollWarOnceWith(script[pos], "ok")
    /\ pos' = pos + 1
    /\ UNCHANGED <<script, run>>

\* The process restarts after some part of the script and the script is polled again
\* from its start; the job_state rows are kept.
ReplayRestart ==
    /\ run = 1
    /\ pos > 1
    /\ run' = 2
    /\ pos' = 1
    /\ UNCHANGED script

(***************************************************************************)
(* A colosseum week: the counters the upstream reports, polled             *)
(***************************************************************************)
\* The real war days the week is followed for.
MaxRealDay == 2

WorldPlayers == <<"#P1", "#P2">>
PlayerIds == 1..Len(WorldPlayers)

WorldInit ==
    /\ realDay = 1
    /\ weekDecks = [p \in PlayerIds |-> 0]
    /\ dayDecks = [p \in PlayerIds |-> 0]
    /\ hasToday \in BOOLEAN
    /\ seen = None
    /\ prevSeen = None

WorldIdle ==
    /\ realDay = 0
    /\ weekDecks = [p \in PlayerIds |-> 0]
    /\ dayDecks = [p \in PlayerIds |-> 0]
    /\ hasToday = FALSE
    /\ seen = None
    /\ prevSeen = None

\* A participant uses one of the day's decks.
UseDeck ==
    \E p \in PlayerIds :
        /\ dayDecks[p] < DecksPerDay
        /\ dayDecks' = [dayDecks EXCEPT ![p] = dayDecks[p] + 1]
        /\ weekDecks' = [weekDecks EXCEPT ![p] = weekDecks[p] + 1]
        /\ UNCHANGED <<realDay, hasToday, seen, prevSeen>>

\* The daily reset: the per-day counters return to 0.
DayBoundary ==
    /\ realDay < MaxRealDay
    /\ realDay' = realDay + 1
    /\ dayDecks' = [p \in PlayerIds |-> 0]
    /\ UNCHANGED <<weekDecks, hasToday, seen, prevSeen>>

\* The payload of the current river race in the colosseum week.
WorldPayload ==
    [periodType |-> Some("colosseum"), state |-> None, dayIndex |-> None,
     warDay |-> None, sectionIndex |-> None,
     participants |-> [p \in PlayerIds |->
        [decksUsed |-> Some(weekDecks[p]),
         decksUsedToday |-> IF hasToday THEN Some(dayDecks[p]) ELSE None]]]

\* A poll derives the period key of the payload.
PollPeriodKey ==
    /\ seen' = Some([day |-> realDay,
                     key |-> currentPeriodKey(WorldPayload, extractParticipants(WorldPayload))])
    /\ prevSeen' = seen
    /\ UNCHANGED <<realDay, weekDecks, dayDecks, hasToday>>

(***************************************************************************)
(* Day inference as a function of one snapshot                             *)
(***************************************************************************)
\* The largest cumulative deck counter of the snapshots considered.
MaxDecks == 21

\* The largest number of participants of the snapshots considered.
MaxParticipants == 2

DeckValues == {None} \cup {Some(d) : d \in 0..MaxDecks}
TodayValues == {None, Some(0), Some(1)}
Snapshots == [decksUsed : DeckValues, decksUsedToday : TodayValues]

ParticipantLists ==
    UNION {[1..n -> Snapshots] : n \in 0..MaxParticipants}

\* Four participants with cumulative counters 4, 8, 8, 8 (and per-day counters
\* absent, or all zero).
ExampleLists ==
    {[i \in 1..4 |-> [decksUsed |-> Some(IF i = 1 THEN 4 ELSE 8), decksUsedToday |-> t]] :
        t \in {None, Some(0)}}

ColosseumPayload ==
    [periodType |-> Some("colosseum"), state |-> None, dayIndex |-> None,
     warDay |-> None, sectionIndex |-> None, participants |-> <<>>]

InferInit ==
    /\ inferArg \in {[payload |-> ColosseumPayload, participants |-> ps] :
                        ps \in ParticipantLists \cup ExampleLists}
    /\ inferOut = None

\* One call inferWarDayIndex(payload, participants), and the same snapshot given to
\* inferColosseumDayIndexFromSnapshot.
Infer ==
    /\ inferOut = None
    /\ inferOut' = Some([day |-> inferWarDayIndex(inferArg.payload, inferArg.participants),
                         retryDay |-> inferColosseumDayIndexFromSnapshot(inferArg.participants)])
    /\ UNCHANGED inferArg

InferIdle ==
    /\ inferArg = [payload |-> ColosseumPayload, participants |-> <<>>]
    /\ inferOut = None

RoleIdle ==
    /\ linked = {}
    /\ roles = [a \in AllAccounts |-> {}]
    /\ pending = [a \in AllAccounts |-> None]
    /\ lastRank = [a \in AllAccounts |-> "nopoll"]
    /\ prevRank = [a \in AllAccounts |-> "nopoll"]
    /\ lastCmd = [a \in AllAccounts |-> "nocmd"]
    /\ prevCmd = [a \in AllAccounts |-> "nocmd"]
    /\ runLen = [a \in AllAccounts |-> 0]
    /\ runCmds = [a \in AllAccounts |-> 0]
    /\ runCorrect = [a \in AllAccounts |-> FALSE]
    /\ baseOk = [a \in AllAccounts |-> FALSE]
    /\ flap = [a \in AllAccounts |-> FALSE]
    /\ hadFail = [a \in AllAccounts |-> FALSE]
    /\ resolved = {}
    /\ reached = {}

(***************************************************************************)
(* The snapshot history store over a sequence of appends                   *)
(***************************************************************************)
\* The number of distinct keys appended.
MaxKeys == 60

StoreInit ==
    /\ store = <<>>
    /\ storeKeys = 0
    /\ storeRepeated = FALSE
    /\ storeLatest = [k \in 1..MaxKeys |-> None]

StoreIdle ==
    /\ store = <<>>
    /\ storeKeys = 0
    /\ storeRepeated = FALSE
    /\ storeLatest = [k \in 1..MaxKeys |-> None]

\* The entry appended for the key: keys are numbered in the order of their first
\* append, and the entry ends at the time of the call.
HistoryEntry(key, at) == [key |-> key, endAt |-> at]

\* One call appendSnapshotHistory(entry): the entry has a key not appended before, or
\* (once) the key of the oldest or of the newest entry retained, or (once) a new key
\* and an end timestamp before those stored (endAt is the wall-clock time of the
\* capture, which can step back between two captures).
AppendSnapshotHistory ==
    \/ /\ storeKeys < MaxKeys
       /\ store' = appendSnapshotHistory(store, HistoryEntry(storeKeys + 1, storeKeys + 1))
       /\ storeLatest' = [storeLatest EXCEPT ![storeKeys + 1] =
                              Some(HistoryEntry(storeKeys + 1, storeKeys + 1))]
       /\ storeKeys' = storeKeys + 1
       /\ UNCHANGED storeRepeated
    \/ /\ ~storeRepeated
       /\ store # <<>>
       /\ \E e \in {store[1], store[Len(store)]} :
             /\ store' = appendSnapshotHistory(store, HistoryEntry(e.key, storeKeys + 1))
             /\ storeLatest' = [storeLatest EXCEPT ![e.key] =
                                    Some(HistoryEntry(e.key, storeKeys + 1))]
       /\ storeRepeated' = TRUE
       /\ UNCHANGED storeKeys
    \/ /\ ~storeRepeated
       /\ storeKeys < MaxKeys
       /\ store # <<>>
       /\ store' = appendSnapshotHistory(store, HistoryEntry(storeKeys + 1, 0))
       /\ storeLatest' = [storeLatest EXCEPT ![storeKeys + 1] =
                              Some(HistoryEntry(storeKeys + 1, 0))]
       /\ storeKeys' = storeKeys + 1
       /\ storeRepeated' = TRUE

(***************************************************************************)
(* The days-ago lookup (discord/warstats.ts, resolveParticipantsForRef)    *)
(***************************************************************************)
\* Time is counted in ticks of 6 hours: 24 * 60 * 60 * 1000 ms is 4 ticks and
\* MAX_DIFF_MS = 36 * 60 * 60 * 1000 ms is 6 ticks.
DAY_TICKS == 4
MAX_DIFF_TICKS == 6

\* The latest time of the lookups considered, the longest history and the largest
\* number of days asked for.
MaxTick == 12
MaxEntries == 2
MaxDaysAgo == 3

AbsDiff(a, b) == IF a >= b THEN a - b ELSE b - a

\* history.filter(typeof e.endAtIso === 'string' && e.snapshot) ... filter(isFinite(t))
RECURSIVE FilterTimed(_)
FilterTimed(entries) ==
    IF entries = <<>> THEN <<>>
    ELSE IF IsDef(Head(entries).endAt)
         THEN <<[e |-> Head(entries), t |-> Val(Head(entries).endAt)]>>
                  \o FilterTimed(Tail(entries))
         ELSE FilterTimed(Tail(entries))

\* Insertion of x into a list sorted by descending t, after the elements that do not
\* sort after it (Array.prototype.sort is stable).
RECURSIVE InsertByTimeDesc(_, _)
InsertByTimeDesc(sorted, x) ==
    IF sorted = <<>> THEN <<x>>
    ELSE IF Head(sorted).t >= x.t THEN <<Head(sorted)>> \o InsertByTimeDesc(Tail(sorted), x)
    ELSE <<x>> \o sorted

\* .sort((a, b) => b.t - a.t)
RECURSIVE SortByTimeDesc(_)
SortByTimeDesc(xs) ==
    IF xs = <<>> THEN <<>>
    ELSE InsertByTimeDesc(SortByTimeDesc(SubSeq(xs, 1, Len(xs) - 1)), xs[Len(xs)])

\* A scan that takes the first (latest) entry whatever its distance.
pickLatest(sorted, i, target, best) ==
    IF sorted = <<>> THEN None
    ELSE Some([e |-> sorted[1].e, t |-> sorted[1].t, diff |-> AbsDiff(sorted[1].t, target)])

\* for (const x of history) { diff = |x.t - target|; if (!best || diff < best.diff) ... }
RECURSIVE pickClosest(_, _, _, _)
pickClosest(sorted, i, target, best) ==
    IF i > Len(sorted) THEN best
    ELSE LET diff == AbsDiff(sorted[i].t, target)
         IN  pickClosest(sorted, i + 1, target,
                 IF ~IsDef(best) \/ diff < Val(best).diff
                 THEN Some([e |-> sorted[i].e, t |-> sorted[i].t, diff |-> diff])
                 ELSE best)

\* resolveParticipantsForRef for {kind: 'daysAgo', days}: the entry whose snapshot is
\* returned, or None for missingSnapshot.
resolveDaysAgo(entries, now, days) ==
    LET sorted == SortByTimeDesc(FilterTimed(entries))
        target == now - days * DAY_TICKS
        best == pickClosest(sorted, 1, target, None)
    IN  IF sorted = <<>> THEN None
        ELSE IF ~IsDef(best) \/ Val(best).diff > MAX_DIFF_TICKS THEN None
        ELSE Some(Val(best).e)

\* The histories the tracker can have stored: distinct keys, every entry with the end
\* time of its capture.
StoredHistories ==
    UNION {[1..n -> 0..MaxTick] : n \in 0..MaxEntries}

QueryInit ==
    /\ queryArg \in {[history |-> [i \in 1..Len(ts) |-> [key |-> i, endAt |-> Some(ts[i])]],
                      now |-> MaxTick, days |-> d] :
                        ts \in StoredHistories, d \in 0..MaxDaysAgo}
    /\ queryOut = None

QueryIdle ==
    /\ queryArg = [history |-> <<>>, now |-> 0, days |-> 0]
    /\ queryOut = None

\* One lookup.
ResolveDaysAgo ==
    /\ queryOut = None
    /\ queryOut' = Some([found |-> resolveDaysAgo(queryArg.history, queryArg.now, queryArg.days)])
    /\ UNCHANGED queryArg

(***************************************************************************)
(* The period key of a payload (jobs/war.ts, currentPeriodKey)             *)
(***************************************************************************)
\* The largest explicit day index a payload carries.
MaxDirect == 6

\* Payloads with and without the explicit fields dayIndex and warDay, of each period
\* type, with one participant.
KeyPayloads ==
    [periodType : {Some("warDay"), Some("colosseum"), Some("training")},
     state : {None},
     dayIndex : {None} \cup {Some(d) : d \in 0..MaxDirect},
     warDay : {None} \cup {Some(d) : d \in 0..MaxDirect},
     sectionIndex : {None, Some(0), Some(1)},
     participants : {<<[decksUsed |-> Some(4), decksUsedToday |-> None]>>}]

\* The participants of a second snapshot: the same counters, a later total, the
\* counters just after a daily reset, and two participants.
KeyCounters ==
    {<<[decksUsed |-> Some(4), decksUsedToday |-> None]>>,
     <<[decksUsed |-> Some(8), decksUsedToday |-> None]>>,
     <<[decksUsed |-> Some(4), decksUsedToday |-> Some(0)]>>,
     <<[decksUsed |-> Some(9), decksUsedToday |-> Some(1)],
       [decksUsed |-> Some(0), decksUsedToday |-> None]>>}

KeyInit ==
    /\ keyArg \in KeyPayloads
    /\ keyOut = None
    /\ keyOther \in KeyCounters
    /\ keyOtherOut = None
    /\ keyJudged = None

KeyIdle ==
    /\ keyArg = TP("training", None, None, 0, None)
    /\ keyOut = None
    /\ keyOther = <<>>
    /\ keyOtherOut = None
    /\ keyJudged = None

\* One call currentPeriodKey(payload, extractParticipants(payload)).
CurrentPeriodKey ==
    /\ keyOut = None
    /\ keyOut' = Some(currentPeriodKey(keyArg, extractParticipants(keyArg)))
    /\ UNCHANGED <<keyArg, keyOther, keyOtherOut, keyJudged>>

\* The same call on a snapshot that differs from keyArg in the participants only.
otherSnapshot == [keyArg EXCEPT !.participants = keyOther]

CurrentPeriodKeyOther ==
    /\ keyOtherOut = None
    /\ keyOtherOut' = Some(currentPeriodKey(otherSnapshot,
                                            extractParticipants(otherSnapshot)))
    /\ UNCHANGED <<keyArg, keyOut, keyOther, keyJudged>>

\* The calls inferWarDayIndex(payload, participants) and isRegularWarBattleDay(payload)
\* that pollWarOnce and postWarDaySnapshotFromCaptured make on one payload.
JudgeBattleDay ==
    /\ keyJudged = None
    /\ keyJudged' = Some([day |-> inferWarDayIndex(keyArg, extractParticipants(keyArg)),
                          battle |-> isRegularWarBattleDay(keyArg)])
    /\ UNCHANGED <<keyArg, keyOut, keyOther, keyOtherOut>>

(***************************************************************************)
(* Open-spot announcements (jobs/spots.ts)                                 *)
(***************************************************************************)
MAX_CLAN_SIZE == 50

\* The largest number of open slots of the rosters considered.
MaxOpen == 3

\* The number of polls considered.
MaxPolls == 5

\* roster.length: from MaxOpen open slots down to a roster above the clan size.
RosterSizes == (MAX_CLAN_SIZE - MaxOpen)..(MAX_CLAN_SIZE + 1)

\* const openSlots = Math.max(0, MAX_CLAN_SIZE - roster.length)
openSlotsOf(size) == Max(0, MAX_CLAN_SIZE - size)

\* lastRaw ? Number(lastRaw) : 0
lastSlotsOf(lastRaw) == IF IsDef(lastRaw) THEN Val(lastRaw) ELSE 0

\* An announcement whenever the open slots differ from the stored count.
opensNewSpotsOnChange(openSlots, lastSlots) == openSlots # lastSlots

\* Whether the poll goes on to announce: neither `!openSlots` nor
\* `openSlots <= lastSlots`.
opensNewSpots(openSlots, lastSlots) ==
    /\ openSlots # 0
    /\ ~(openSlots <= lastSlots)

SpotsInit ==
    /\ spotsLast = None
    /\ spotsOpen = None
    /\ spotsBefore = None
    /\ spotsSent = FALSE
    /\ spotsChannel = TRUE
    /\ spotsDone = FALSE
    /\ spotsPolls = 0

SpotsIdle ==
    /\ spotsLast = None
    /\ spotsOpen = None
    /\ spotsBefore = None
    /\ spotsSent = FALSE
    /\ spotsChannel = TRUE
    /\ spotsDone = FALSE
    /\ spotsPolls = 0

\* pollEmptySpotsOnce with a roster of the given size; channelOk: the guild's
\* announcement channel resolves to a text channel. A rejected send is caught and
\* counts as sent.
pollEmptySpotsOnceWith(size, channelOk) ==
    LET openSlots == openSlotsOf(size)
        lastSlots == lastSlotsOf(spotsLast)
    IN  /\ spotsOpen' = Some(openSlots)
        /\ spotsBefore' = spotsOpen
        /\ spotsDone' = TRUE
        /\ spotsChannel' = channelOk
        /\ IF ~opensNewSpots(openSlots, lastSlots)
           THEN /\ channelOk
                /\ spotsLast' = IF openSlots # lastSlots THEN Some(openSlots)
                                ELSE spotsLast
                /\ spotsSent' = FALSE
           ELSE IF ~channelOk
           THEN /\ spotsSent' = FALSE
                /\ UNCHANGED spotsLast
           ELSE /\ spotsSent' = TRUE
                /\ spotsLast' = Some(openSlots)

PollEmptySpotsOnce ==
    /\ spotsPolls < MaxPolls
    /\ spotsPolls' = spotsPolls + 1
    /\ \E size \in RosterSizes, channelOk \in BOOLEAN :
          pollEmptySpotsOnceWith(size, channelOk)

\* pollEmptySpotsOnce when getClanMembers or client.guilds.fetch rejects: the poll
\* ends there, before any write.
PollEmptySpotsRejected ==
    /\ spotsPolls < MaxPolls
    /\ spotsPolls' = spotsPolls + 1
    /\ spotsDone' = FALSE
    /\ spotsSent' = FALSE
    /\ UNCHANGED <<spotsLast, spotsOpen, spotsBefore, spotsChannel>>

(***************************************************************************)
(* The time-based war-day reminder (jobs/war.ts, pollWarOnce)              *)
(***************************************************************************)
\* The number of local calendar dates considered.
MaxDates == 2

\* The number of restarts of the process considered.
MaxRestarts == 2

\* The number of deliveries counted per date.
MaxSent == 2

\* The day before the first date considered, a fresh job state.
ReminderInit ==
    /\ remDate = 0
    /\ remInMinute = FALSE
    /\ remLastDate = None
    /\ remSent = [d \in 1..MaxDates |-> 0]
    /\ remTick = None
    /\ remSkipped = FALSE
    /\ remBoots = 0

ReminderIdle ==
    /\ remDate = 0
    /\ remInMinute = FALSE
    /\ remLastDate = None
    /\ remSent = [d \in 1..MaxDates |-> 0]
    /\ remTick = None
    /\ remSkipped = FALSE
    /\ remBoots = 0

\* Whether the tick comes to the send of the reminder: a battle day, the configured
\* minute, a date other than the stored one, the announcement channel at hand.
reachesReminder(isBattleDay, channelOk) ==
    /\ isBattleDay
    /\ remInMinute
    /\ remLastDate # Some(remDate)
    /\ channelOk

\* The local time passes: out of the configured minute, or on to the configured
\* minute of the next date.
ClockAdvances ==
    /\ IF remInMinute
       THEN /\ remInMinute' = FALSE
            /\ UNCHANGED remDate
       ELSE /\ remDate < MaxDates
            /\ remInMinute' = TRUE
            /\ remDate' = remDate + 1
    /\ UNCHANGED <<remLastDate, remSent, remTick, remSkipped, remBoots>>

\* A war-poll tick up to `await ann.send(...)` of the reminder; a tick that does not
\* come to the send ends without a write. delivered: the message reaches the channel.
ReminderTickBegins ==
    /\ remTick = None
    /\ \E isBattleDay \in BOOLEAN, channelOk \in BOOLEAN, delivered \in BOOLEAN :
          IF reachesReminder(isBattleDay, channelOk)
          THEN /\ remTick' = Some(remDate)
               /\ remSent' = [remSent EXCEPT ![remDate] =
                                  Min(@ + (IF delivered THEN 1 ELSE 0), MaxSent)]
               /\ remSkipped' = FALSE
          ELSE /\ delivered
               /\ remSkipped' = TRUE
               /\ UNCHANGED <<remTick, remSent>>
    /\ UNCHANGED <<remDate, remInMinute, remLastDate, remBoots>>

\* The send settles (a rejection is caught) and the tick writes the date it read.
ReminderTickEnds ==
    /\ IsDef(remTick)
    /\ remLastDate' = remTick
    /\ remTick' = None
    /\ UNCHANGED <<remDate, remInMinute, remSent, remSkipped, remBoots>>

\* The process is stopped and started again: a tick waiting on its send is lost with
\* the process, the job state stays.
ReminderRestart ==
    /\ remBoots < MaxRestarts
    /\ remBoots' = remBoots + 1
    /\ remTick' = None
    /\ UNCHANGED <<remDate, remInMinute, remLastDate, remSent, remSkipped>>

(***************************************************************************)
(* The callbacks of one process between their awaits (index.ts ready       *)
(* handler, jobs/scheduler.ts, jobs/war.ts)                                *)
(***************************************************************************)
\* The number of times the process is started.
MaxBoots == 2

\* The upstream is in war day 1, then in war day 2.
PayloadDay1 == TP("warDay", Some(1), None, 1, None)
PayloadDay2 == TP("warDay", Some(2), None, 2, None)

TrackerProcs == {"prime", "poll"}

\* A callback that is not running, and the state startScheduler leaves: the prime is
\* started and not awaited, the cron callbacks are registered, and the startup task
\* of the ready handler (started before, not awaited) is in its migration.
ProcIdle == [pc |-> "idle", payload |-> None, parsed |-> None]
ProcsAtStart ==
    [p \in TrackerProcs |-> IF p = "prime" THEN [ProcIdle EXCEPT !.pc = "fetching"] ELSE ProcIdle]

AsyncInit ==
    /\ boots = 1
    /\ upstream = PayloadDay1
    /\ procs = ProcsAtStart
    /\ startupTask = "migrating"
    /\ cronSync = "idle"
    /\ crashed = FALSE
    /\ polledSinceBoot = FALSE

AsyncIdle ==
    /\ boots = 0
    /\ upstream = PayloadDay1
    /\ procs = [p \in TrackerProcs |-> ProcIdle]
    /\ startupTask = "done"
    /\ cronSync = "idle"
    /\ crashed = FALSE
    /\ polledSinceBoot = FALSE

\* The five job_state rows of the tracker are set to those of db.
SetTrackerDb(db) ==
    /\ periodLastKey' = db.periodLastKey
    /\ lastCapture' = db.lastCapture
    /\ snapLastKey' = db.snapLastKey
    /\ lastSnapshot' = db.lastSnapshot
    /\ history' = db.history

\* The end of maybePostSnapshotOnPeriodChange (the capture is persisted) and, for the
\* poll, of pollWarOnce (participants and period type are saved); the callback returns.
TrackerStepEnds(p, db, payload) ==
    /\ SetTrackerDb([db EXCEPT !.periodLastKey =
                                   Some(currentPeriodKey(payload, extractParticipants(payload))),
                               !.lastCapture =
                                   Some(captureNow(db, payload, extractParticipants(payload), clock))])
    /\ lastParticipants' = IF p = "poll"
                           THEN Some(serializeParticipants(extractParticipants(payload)))
                           ELSE lastParticipants
    /\ lastPeriodType' = IF p = "poll" /\ IsDef(payload.periodType)
                            /\ lastPeriodType # payload.periodType
                         THEN payload.periodType ELSE lastPeriodType
    /\ procs' = [procs EXCEPT ![p] = ProcIdle]
    /\ polledSinceBoot' = TRUE

\* The upstream period rolls over.
UpstreamRollover ==
    /\ upstream = PayloadDay1
    /\ upstream' = PayloadDay2
    /\ clock' = clock + 1
    /\ UNCHANGED <<boots, procs, startupTask, cronSync, crashed, polledSinceBoot,
                   periodLastKey, lastCapture, snapLastKey, lastSnapshot, history,
                   lastParticipants, lastPeriodType, posts, appends>>

\* The war-poll cron tick: pollWarOnce starts and awaits its fetches.  (What node-cron
\* does with a tick that comes due while the previous callback has not returned is not
\* in the source; the callback is started only when the previous one has returned.)
CronWarPoll ==
    /\ procs["poll"].pc = "idle"
    /\ procs' = [procs EXCEPT !["poll"].pc = "fetching"]
    /\ UNCHANGED <<boots, upstream, startupTask, cronSync, crashed, polledSinceBoot,
                   periodLastKey, lastCapture, snapLastKey, lastSnapshot, history,
                   lastParticipants, lastPeriodType, posts, appends, clock>>

\* A fetch of pollWarOnce or primeWarDaySnapshotSchedule rejects: the callback ends.
WarFetchRejects ==
    \E p \in TrackerProcs :
        /\ procs[p].pc = "fetching"
        /\ procs' = [procs EXCEPT ![p] = ProcIdle]
        /\ UNCHANGED <<boots, upstream, startupTask, cronSync, crashed, polledSinceBoot,
                       periodLastKey, lastCapture, snapLastKey, lastSnapshot, history,
                       lastParticipants, lastPeriodType, posts, appends, clock>>

\* The payload arrives and maybePostSnapshotOnPeriodChange runs up to its first await:
\* it reads the rows, and either awaits the fetches of postWarDaySnapshotFromCaptured
\* (a period closes and the last_key guard lets it pass) or runs to its end.
WarPayloadFetched ==
    \E p \in TrackerProcs :
        /\ procs[p].pc = "fetching"
        /\ IF reachesPost(TrackerDb, upstream, extractParticipants(upstream))
           THEN /\ procs' = [procs EXCEPT ![p] = [pc |-> "posting", payload |-> Some(upstream),
                                                   parsed |-> lastCapture]]
                /\ UNCHANGED <<periodLastKey, lastCapture, snapLastKey, lastSnapshot, history,
                               lastParticipants, lastPeriodType, polledSinceBoot>>
           ELSE TrackerStepEnds(p, TrackerDb, upstream)
        /\ UNCHANGED <<boots, upstream, startupTask, cronSync, crashed, posts, appends, clock>>

\* postWarDaySnapshotFromCaptured from its fetches to its last send: it returns early
\* or throws (the tracker step then runs to its end), or the sends are made and the
\* checkpoint writes are next.
WarSummarySends ==
    \E p \in TrackerProcs :
    \E outcome \in PostOutcomes :
        /\ procs[p].pc = "posting"
        /\ LET parsed == Val(procs[p].parsed)
           IN  IF outcome \in {"throw", "nochannel"} \/ ~isRegularWarBattleDay(parsed.payload)
               THEN /\ TrackerStepEnds(p, TrackerDb, Val(procs[p].payload))
                    /\ UNCHANGED posts
               ELSE /\ posts' = IF outcome = "ok"
                                THEN Append(posts, [key |-> snapshotKeyOf(parsed.periodKey),
                                                    endAt |-> parsed.capturedAt,
                                                    snapshot |-> serializeParticipants(parsed.snapshot)])
                                ELSE posts
                    /\ procs' = [procs EXCEPT ![p].pc = "writing"]
                    /\ UNCHANGED <<periodLastKey, lastCapture, snapLastKey, lastSnapshot, history,
                                   lastParticipants, lastPeriodType, polledSinceBoot>>
        /\ UNCHANGED <<boots, upstream, startupTask, cronSync, crashed, appends, clock>>

\* The history entry of a finalize.
finalizeEntry(parsed, now) ==
    [key |-> snapshotKeyOf(parsed.periodKey), endAt |-> parsed.capturedAt, capturedAt |-> now,
     periodType |-> parsed.payload.periodType,
     dayIndex |-> inferWarDayIndex(parsed.payload, parsed.snapshot),
     snapshot |-> serializeParticipants(parsed.snapshot)]

\* The first n of the three checkpoint writes of a finalize, in the order of the code:
\* last_snapshot, last_key, history.
finalizeWrites(db, parsed, now, n) ==
    [db EXCEPT !.lastSnapshot = IF n >= 1 THEN Some(serializeParticipants(parsed.snapshot)) ELSE @,
               !.snapLastKey = IF n >= 2 THEN Some(snapshotKeyOf(parsed.periodKey)) ELSE @,
               !.history = IF n >= 3 THEN appendSnapshotHistory(@, finalizeEntry(parsed, now)) ELSE @]

\* After the last send: the three checkpoint writes, then the tracker step runs to
\* its end (no await in between).
WarFinalizeWrites ==
    \E p \in TrackerProcs :
        /\ procs[p].pc = "writing"
        /\ TrackerStepEnds(p, finalizeWrites(TrackerDb, Val(procs[p].parsed), clock, 3),
                           Val(procs[p].payload))
        /\ appends' = Append(appends, snapshotKeyOf(Val(procs[p].parsed).periodKey))
        /\ UNCHANGED <<boots, upstream, startupTask, cronSync, crashed, posts, clock>>

\* The process is started again: nothing of the callbacks survives, the rows do.
ProcessStarts ==
    /\ boots' = boots + 1
    /\ procs' = ProcsAtStart
    /\ startupTask' = "migrating"
    /\ cronSync' = "idle"
    /\ polledSinceBoot' = FALSE
    /\ clock' = clock + 1

\* The process stops between two callbacks' steps and is started again.
Restart ==
    /\ boots < MaxBoots
    /\ ProcessStarts
    /\ crashed' = (crashed \/ \E p \in TrackerProcs : procs[p].pc \in {"posting", "writing"})
    /\ UNCHANGED <<upstream, periodLastKey, lastCapture, snapLastKey, lastSnapshot, history,
                   lastParticipants, lastPeriodType, posts, appends>>

\* The process stops inside the checkpoint writes of a finalize, after the first or
\* the second of them, and is started again.
CrashInFinalize ==
    \E p \in TrackerProcs :
    \E n \in {1, 2} :
        /\ boots < MaxBoots
        /\ procs[p].pc = "writing"
        /\ SetTrackerDb(finalizeWrites(TrackerDb, Val(procs[p].parsed), clock, n))
        /\ ProcessStarts
        /\ crashed' = TRUE
        /\ UNCHANGED <<upstream, lastParticipants, lastPeriodType, posts, appends>>

\* The startup task of the ready handler comes to its syncRolesOnce, and the pass ends.
StartupResyncBegins ==
    /\ startupTask = "migrating"
    /\ startupTask' = "syncing"
    /\ UNCHANGED <<boots, upstream, procs, cronSync, crashed, polledSinceBoot, trackerVars>>

StartupResyncEnds ==
    /\ startupTask = "syncing"
    /\ startupTask' = "done"
    /\ UNCHANGED <<boots, upstream, procs, cronSync, crashed, polledSinceBoot, trackerVars>>

\* The role-sync cron tick: syncRolesOnce starts, and the pass ends.
CronRoleSyncBegins ==
    /\ cronSync = "idle"
    /\ cronSync' = "syncing"
    /\ UNCHANGED <<boots, upstream, procs, startupTask, crashed, polledSinceBoot, trackerVars>>

CronRoleSyncEnds ==
    /\ cronSync = "syncing"
    /\ cronSync' = "idle"
    /\ UNCHANGED <<boots, upstream, procs, startupTask, crashed, polledSinceBoot, trackerVars>>

\* What the step-by-step actions leave alone: the observations of the whole steps.
AsyncFrame == UNCHANGED <<phase, lastA, closed, trackFail, tickEmits, tickSame>>

(***************************************************************************)
(* Ticks whose upstream fetch fails: the role-sync job and the war-poll    *)
(* job, each followed on its own (they share no row)                       *)
(***************************************************************************)
UpstreamIdle == tickAbandoned = FALSE

\* The role-sync job starts with the linked account holding no role, the member role,
\* the non-member role, or both.
UpstreamRoleInit ==
    /\ RoleInit
    /\ roles["u1"] \subseteq {"member", "vanquished"}

\* The ranks the rosters of the role-sync job give: a member, or not in the clan.
UpstreamRanks == {"member", "absent"}

\* The role-sync job is followed when an account is linked, the war-poll job in a
\* process without linked accounts.
RoleSyncTick ==
    /\ linked # {}
    /\ SyncRolesOnce
    /\ \A a \in linked : lastRank'[a] \in UpstreamRanks
    /\ tickAbandoned' = FALSE

RoleSyncTickAbandoned ==
    /\ linked # {}
    /\ SyncRolesAbandoned
    /\ tickAbandoned' = TRUE

\* The payloads the polls of the war-poll job return: war day 1, war day 2, a
\* training day.
UpstreamPayloads == {PayloadDay1, PayloadDay2, TP("training", None, Some(0), 0, None)}

WarPollTick ==
    /\ linked = {}
    /\ \/ /\ clock < MaxTicks
          /\ \E payload \in UpstreamPayloads :
                \E outcome \in possibleOutcomes(TrackerDb, payload, extractParticipants(payload)) :
                    pollWarOnceWith(payload, outcome)
       \/ PrimeWarDaySnapshotSchedule
    /\ tickAbandoned' = FALSE

WarPollTickAbandoned ==
    /\ linked = {}
    /\ PollWarAbandoned
    /\ tickAbandoned' = TRUE

(***************************************************************************)
(* Role sync over two linked accounts                                      *)
(***************************************************************************)
\* Two accounts are linked, neither holds a managed role yet, the database is fresh.
PairInit ==
    /\ linked = AllAccounts
    /\ roles = [a \in AllAccounts |-> {}]
    /\ pending = [a \in AllAccounts |-> None]
    /\ lastRank = [a \in AllAccounts |-> "nopoll"]
    /\ prevRank = [a \in AllAccounts |-> "nopoll"]
    /\ lastCmd = [a \in AllAccounts |-> "nocmd"]
    /\ prevCmd = [a \in AllAccounts |-> "nocmd"]
    /\ runLen = [a \in AllAccounts |-> 0]
    /\ runCmds = [a \in AllAccounts |-> 0]
    /\ runCorrect = [a \in AllAccounts |-> FALSE]
    /\ baseOk = [a \in AllAccounts |-> FALSE]
    /\ flap = [a \in AllAccounts |-> FALSE]
    /\ hadFail = [a \in AllAccounts |-> FALSE]
    /\ resolved = {}
    /\ reached = {}

\* The roster of the passes: both accounts are members of the clan.
PairRosters == {[a \in AllAccounts |-> "member"]}

\* A pass over both accounts.
SyncPairOnce ==
    \E roster \in PairRosters,
       fetched \in SUBSET linked,
       fails \in [linked -> SUBSET {"add"}] :
        syncRolesOnceWith(roster, fetched, fails)

(***************************************************************************)
(* One role-sync pass, link by link (discord/roleSync.ts, the for loop)    *)
(***************************************************************************)
\* The rows of user_links in the order the SELECT returns them.
LinkOrder == <<"u1", "u2">>

\* The rosters of the passes: each account a member or an elder of the clan.
LoopRosters == [AllAccounts -> {"member", "elder"}]

\* A settle-state key shared by all accounts.
pendingKeyShared(a) == "u1"

\* `role_sync:pending:${link.discord_user_id}`: the key is named by its account.
pendingKey(a) == a

LoopInit ==
    /\ loopRest = <<>>
    /\ loopRoster = [a \in AllAccounts |-> "member"]
    /\ loopAt = None

LoopIdle ==
    /\ loopRest = <<>>
    /\ loopRoster = [a \in AllAccounts |-> "absent"]
    /\ loopAt = None

\* The monitors of the whole-pass model, which the link-by-link model leaves alone.
passMonitors == <<lastRank, prevRank, lastCmd, prevCmd, runLen, runCmds, runCorrect,
                  baseOk, flap, hadFail, resolved, reached>>

\* syncRolesOnce up to its loop: the roster is fetched and the links are selected.
SyncPassBegins ==
    /\ loopRest = <<>>
    /\ \E roster \in LoopRosters : loopRoster' = roster
    /\ loopRest' = SelectSeq(LinkOrder, LAMBDA a : a \in linked)
    /\ loopAt' = None
    /\ UNCHANGED roleVars

\* One iteration of the loop (roleSync.ts:52-101) for the link at the head.
SyncLink ==
    /\ loopRest # <<>>
    /\ LET a == Head(loopRest)
            rank == loopRoster[a]
            k == pendingKey(a)
       IN  \E fetched \in BOOLEAN, fails \in SUBSET {"add"} :
              /\ (~fetched \/ ~reachesApply(roles[a], pending[k], rank)) => fails = {}
              /\ fails \subseteq attemptedOps(roles[a], rank)
              /\ LET res == syncAccount(roles[a], pending[k], rank, fetched, fails)
                 IN  /\ roles' = [roles EXCEPT ![a] = res.roles]
                     /\ pending' = [pending EXCEPT ![k] = res.pending]
              /\ loopAt' = Some(a)
    /\ loopRest' = Tail(loopRest)
    /\ UNCHANGED <<linked, passMonitors, loopRoster>>

(***************************************************************************)
(* Day inference: claims                                                   *)
(***************************************************************************)
\* The cumulative counters of a snapshot (an absent counter counts as 0), their
\* maximum, and the per-day counters that are present.
Cumulatives(ps) ==
    {IF IsDef(ps[i].decksUsed) THEN Val(ps[i].decksUsed) ELSE 0 : i \in 1..Len(ps)}
MaxCumulative(ps) ==
    CHOOSE m \in Cumulatives(ps) \cup {0} : \A x \in Cumulatives(ps) : x <= m
TodaysPresent(ps) ==
    {Val(ps[i].decksUsedToday) : i \in {j \in 1..Len(ps) : IsDef(ps[j].decksUsedToday)}}

\* A per-day counter is present and reads zero for every participant.
AllTodayZero(ps) ==
    /\ Len(ps) > 0
    /\ \A i \in 1..Len(ps) : ps[i].decksUsedToday = Some(0)

\* The reset boundary: some per-day counter is present, none is positive, and the
\* maximum cumulative counter is a positive multiple of 4.
AtResetBoundary(ps) ==
    /\ TodaysPresent(ps) = {0}
    /\ \E q \in 1..(MaxDecks + 1) : MaxCumulative(ps) = 4 * q

\* max(1, ceil(m / 4)): the least k >= 1 with m <= 4k.
DayOfTotal(m) ==
    CHOOSE k \in 1..(MaxDecks + 1) : m <= 4 * k /\ (k = 1 \/ m > 4 * (k - 1))

\* C9: for a colosseum snapshot that is not at a reset boundary the inferred day
\* index is max(1, ceil(M / 4)), M the maximum cumulative counter, whenever that
\* value is within 1..5.
C9_ColosseumFallback ==
    IsDef(inferOut) =>
        LET ps == inferArg.participants
            k == DayOfTotal(MaxCumulative(ps))
        IN  (~AtResetBoundary(ps) /\ k <= 5) => Val(inferOut).day = Some(k)

\* C9 witness: the counters 4, 8, 8, 8 with no per-day counter give day 2.
C9_Witness ==
    /\ IsDef(inferOut)
    /\ Len(inferArg.participants) = 4
    /\ \A i \in 1..4 : inferArg.participants[i].decksUsedToday = None
    /\ MaxCumulative(inferArg.participants) = 8
    /\ Val(inferOut).day = Some(2)

\* C10 (as stated): when a per-day counter is present and zero for every participant
\* and the maximum cumulative counter M is a positive multiple of 4, the inferred day
\* index is floor(M / 4) + 1; when some per-day counter is positive the rule does not
\* apply (the day is max(1, ceil(M / 4)) where that is within 1..5).
C10_ResetBoundary ==
    IsDef(inferOut) =>
        LET ps == inferArg.participants
            M == MaxCumulative(ps)
        IN  /\ \A q \in 1..(MaxDecks + 1) :
                  (AllTodayZero(ps) /\ M = 4 * q) =>
                      /\ Val(inferOut).day = Some(q + 1)
                      /\ Val(inferOut).retryDay = Some(q + 1)
            /\ ((\E t \in TodaysPresent(ps) : t > 0) /\ DayOfTotal(M) <= 5) =>
                  /\ Val(inferOut).day = Some(DayOfTotal(M))
                  /\ Val(inferOut).retryDay = Some(DayOfTotal(M))

\* C10 (amended): the same, for the multiples of 4 whose next day is a valid day index
\* (floor(M / 4) + 1 <= 5, that is M in {4, 8, 12, 16}).
C10_ResetBoundaryInRange ==
    IsDef(inferOut) =>
        LET ps == inferArg.participants
            M == MaxCumulative(ps)
        IN  /\ \A q \in 1..4 :
                  (AllTodayZero(ps) /\ M = 4 * q) =>
                      /\ Val(inferOut).day = Some(q + 1)
                      /\ Val(inferOut).retryDay = Some(q + 1)
            /\ ((\E t \in TodaysPresent(ps) : t > 0) /\ DayOfTotal(M) <= 5) =>
                  /\ Val(inferOut).day = Some(DayOfTotal(M))
                  /\ Val(inferOut).retryDay = Some(DayOfTotal(M))

\* C10 witness: cumulative 8 with every per-day counter zero gives day 3.
C10_Witness ==
    /\ IsDef(inferOut)
    /\ AllTodayZero(inferArg.participants)
    /\ MaxCumulative(inferArg.participants) = 8
    /\ Val(inferOut).day = Some(3)
    /\ Val(inferOut).retryDay = Some(3)

\* C11: for every colosseum snapshot the fallback yields a defined day index within
\* 1..5, and a computed value above 5 (maximum cumulative counter above 20, or a reset
\* boundary at 20) is clamped to 5.
C11_ClampedToRange ==
    IsDef(inferOut) =>
        LET ps == inferArg.participants
            M == MaxCumulative(ps)
            computed == IF AtResetBoundary(ps) THEN (M \div 4) + 1 ELSE DayOfTotal(M)
        IN  /\ IsDef(Val(inferOut).day)
            /\ Val(Val(inferOut).day) \in 1..5
            /\ computed > 5 => Val(inferOut).day = Some(5)

(***************************************************************************)
(* Rollover tracker: claims                                                *)
(***************************************************************************)
NoDuplicates(seq) == \A i, j \in 1..Len(seq) : i # j => seq[i] # seq[j]

\* C5: for polls with keys A,...,A,B,...,B (A a battle day, no failures) nothing is
\* emitted while the key is A; at the first B poll exactly one closed snapshot is
\* emitted, for A, holding the capture of the last A poll, and nothing more while the
\* key stays B; and a poll whose key equals the key of the poll before emits nothing.
C5_RolloverExactlyOnce ==
    /\ (phase = "A" /\ ~trackFail) =>
          (posts = <<>> /\ appends = <<>> /\ history = <<>>)
    /\ (phase = "AB" /\ ~trackFail /\ isRegularWarBattleDay(Val(lastA).payload)) =>
          /\ posts = <<[key |-> snapshotKeyOf(Val(lastA).key), endAt |-> Val(lastA).at,
                        snapshot |-> Val(lastA).snapshot]>>
          /\ appends = <<snapshotKeyOf(Val(lastA).key)>>
          /\ Len(history) = 1
          /\ history[1].key = snapshotKeyOf(Val(lastA).key)
          /\ history[1].endAt = Val(lastA).at
          /\ history[1].snapshot = Val(lastA).snapshot
    /\ tickSame => ~tickEmits

\* C5 witness: two polls of a battle day A, then two polls of B; the capture of the
\* second A poll was posted at the first B poll and the second B poll emitted nothing.
C5_Witness ==
    /\ phase = "AB"
    /\ ~trackFail
    /\ isRegularWarBattleDay(Val(lastA).payload)
    /\ Val(lastA).at >= 1
    /\ clock >= Val(lastA).at + 3
    /\ Len(posts) = 1
    /\ posts[1].endAt = Val(lastA).at
    /\ tickSame
    /\ ~tickEmits

\* C6: when a snapshot sequence is polled again against the checkpoints an earlier
\* run of it left, no closed snapshot is emitted under a key already emitted.
C6_ReplayIdempotent ==
    run = 2 => (NoDuplicates(appends) /\ NoDuplicates([i \in 1..Len(posts) |-> posts[i].key]))

\* C7: a rollover out of a battle day is not lost and not duplicated: the closed
\* period has its summary post, or the tracker still holds its capture so that a
\* later tick can post it; and no period has more summary posts than closings.
C7_RolloverNotLost ==
    /\ \A i \in 1..Len(closed) :
          \/ \E j \in 1..Len(posts) : posts[j].key = snapshotKeyOf(closed[i])
          \/ (IsDef(lastCapture) /\ Val(lastCapture).periodKey = closed[i])
    /\ \A j \in 1..Len(posts) :
          Cardinality({k \in 1..Len(posts) : posts[k].key = posts[j].key})
            <= Cardinality({i \in 1..Len(closed) : snapshotKeyOf(closed[i]) = posts[j].key})

(***************************************************************************)
(* Period key over a colosseum week: claims                                *)
(***************************************************************************)
\* C8: two polls in a row within one real day derive the same key; two polls in a row
\* on either side of one day boundary derive different keys; and the day of the key
\* never goes back.
C8_PeriodKeyStable ==
    (IsDef(seen) /\ IsDef(prevSeen)) =>
        /\ Val(seen).day = Val(prevSeen).day => Val(seen).key = Val(prevSeen).key
        /\ Val(seen).day = Val(prevSeen).day + 1 => Val(seen).key # Val(prevSeen).key
        /\ (IsDef(Val(seen).key.dayIndex) /\ IsDef(Val(prevSeen).key.dayIndex)) =>
              Val(Val(seen).key.dayIndex) >= Val(Val(prevSeen).key.dayIndex)

(***************************************************************************)
(* Snapshot history store: claims                                          *)
(***************************************************************************)
\* C12: after any sequence of appendSnapshotHistory calls the stored history has at
\* most 50 entries, and after 60 entries with distinct keys were appended it has
\* exactly 50.
C12_HistoryBound ==
    /\ Len(store) <= 50
    /\ storeKeys = 60 => Len(store) = 50

\* C12 witness: 60 distinct keys were appended, none twice, and 50 entries are stored.
C12_Witness ==
    /\ storeKeys = 60
    /\ ~storeRepeated
    /\ Len(store) = 50

\* The distances of the end timestamps of a history to a target instant.
Distances(entries, target) ==
    {AbsDiff(Val(entries[i].endAt), target) : i \in 1..Len(entries)}

\* C13: the days-ago lookup returns a stored entry whose end timestamp is nearest to
\* the target instant, and returns none exactly when the history is empty or the
\* nearest end timestamp is more than 36 hours (6 ticks) from the target.
C13_ClosestInstant ==
    IsDef(queryOut) =>
        LET H == queryArg.history
            target == queryArg.now - queryArg.days * 4
            D == Distances(H, target)
            found == Val(queryOut).found
        IN  /\ (found = None) <=> (H = <<>> \/ \A d \in D : d > 6)
            /\ IsDef(found) =>
                  /\ \E i \in 1..Len(H) : H[i] = Val(found)
                  /\ \A d \in D : AbsDiff(Val(Val(found).endAt), target) <= d

\* C13 witness: of two entries the earlier one, which is nearer to the target and
\* exactly 36 hours from it, is returned.
C13_Witness ==
    /\ IsDef(queryOut)
    /\ Len(queryArg.history) = 2
    /\ IsDef(Val(queryOut).found)
    /\ LET target == queryArg.now - queryArg.days * 4
           t == Val(Val(Val(queryOut).found).endAt)
       IN  /\ AbsDiff(t, target) = 6
           /\ \E i \in 1..2 : Val(queryArg.history[i].endAt) > t

(***************************************************************************)
(* Callbacks between their awaits: claims                                  *)
(***************************************************************************)
\* The role-sync passes in progress.
SyncsInProgress ==
    (IF startupTask = "syncing" THEN 1 ELSE 0) + (IF cronSync = "syncing" THEN 1 ELSE 0)

\* C14: no role-sync pass starts while another one, started by the cron tick or by
\* startup code, is in progress; and no two war-poll ticks are in progress at once.
C14_NoOverlap ==
    /\ SyncsInProgress <= 1
    /\ Cardinality({p \in {"poll"} : procs[p].pc # "idle"}) <= 1

(***************************************************************************)
(* Failed upstream fetches: claims                                         *)
(***************************************************************************)
\* C15: a tick whose roster fetch (role sync) or current-period fetch (war poll) fails
\* leaves every checkpoint unchanged (settle states, last period key and capture,
\* last-emitted key and snapshot, history, last participants and period type) and
\* emits no role command and no post; so the next tick runs as if it had not been.
C15_UpstreamFailureUntouched ==
    [][tickAbandoned' =>
          UNCHANGED <<pending, roles, lastCmd, runCmds, periodLastKey, lastCapture, snapLastKey,
                      lastSnapshot, history, lastParticipants, lastPeriodType, posts,
                      appends>>]_vars

\* C15 witness: a war-poll tick was abandoned after a summary had been posted and
\* while a capture is held.
C15_Witness ==
    /\ tickAbandoned
    /\ IsDef(lastCapture)
    /\ Len(posts) = 1
    /\ Len(history) = 1

(***************************************************************************)
(* Role sync: the already-correct skip                                     *)
(***************************************************************************)
\* What a pass does to an account whose roles were exactly those of the rank the pass
\* reads for it: no role-set, the roles stay, the settle state becomes {desired, 2}.
SkipsAsAlreadyCorrect(a) ==
    /\ lastCmd'[a] = "nocmd"
    /\ roles'[a] = roles[a]
    /\ pending'[a] = Some([desired |-> desiredKeyFromClanRole(lastRank'[a]), n |-> 2])

\* C16 (as stated): when an account's applied roles already match the desired role
\* exactly (the non-member state included), the pass issues no role call for the
\* account and sets its settle state to {desired, 2}.
C16_AlreadyCorrectSkip ==
    [][\A a \in linked :
          (lastRank'[a] \in Ranks /\ roles[a] = ExactRoles(lastRank'[a]))
              => SkipsAsAlreadyCorrect(a)]_vars

\* C16 (amended): the same, for an account the pass resolves downstream (its member
\* fetch succeeds).
C16_AlreadyCorrectSkipWhenResolved ==
    [][\A a \in linked :
          (lastRank'[a] \in Ranks /\ roles[a] = ExactRoles(lastRank'[a]) /\ a \in resolved')
              => SkipsAsAlreadyCorrect(a)]_vars

\* C16 witness: two passes read the rank the account's roles already show; no role-set
\* was issued and the settle state is {desired, 2}.
C16_Witness ==
    \E a \in linked :
        /\ lastRank[a] \in Ranks
        /\ prevRank[a] = lastRank[a]
        /\ roles[a] = ExactRoles(lastRank[a])
        /\ runCorrect[a]
        /\ runCmds[a] = 0
        /\ lastCmd[a] = "nocmd"
        /\ ~hadFail[a]
        /\ pending[a] = Some([desired |-> desiredKeyFromClanRole(lastRank[a]), n |-> 2])

(***************************************************************************)
(* Finalize: the last-emitted key and the snapshot key                     *)
(***************************************************************************)
\* C17: the last-emitted key (war:day_snapshot:last_key) is written only after the
\* closed snapshot was delivered to the war-logs channel: whenever the key is K, a
\* summary with key K has been delivered; a failed delivery leaves the key as it was.
C17_KeyOnlyAfterDelivery ==
    IsDef(snapLastKey) => \E j \in 1..Len(posts) : posts[j].key = Val(snapLastKey)

\* C20: the snapshot key is derived from the closed period's identity and the
\* capture's end timestamp: two closures with different end timestamps get different
\* keys.
C20_KeyIncludesEndTimestamp ==
    \A i, j \in 1..Len(posts) :
        posts[i].endAt # posts[j].endAt => posts[i].key # posts[j].key

(***************************************************************************)
(* Callbacks between their awaits: the tracker steps                       *)
(***************************************************************************)
\* The keys of the summaries delivered, in order.
PostKeys == [j \in 1..Len(posts) |-> posts[j].key]

\* C18: whatever the interleaving of the startup prime with a cron-triggered
\* pollWarOnce, the closing of a period gives at most one summary post and at most one
\* history append for its key (runs in which the process stopped inside a finalize
\* are left out: there the retry may post again).
C18_TrackerStepsSequential ==
    ~crashed => NoDuplicates(PostKeys) /\ NoDuplicates(appends)

\* C19: when the process has stopped between two checkpoint writes of a finalize, was
\* started again and has polled, and no finalize is under way: if the last-emitted key
\* is K, the history has an entry with key K.
C19_FinalizeCrashRecovered ==
    (/\ crashed
     /\ polledSinceBoot
     /\ \A p \in TrackerProcs : procs[p].pc \notin {"posting", "writing"})
        => (IsDef(snapLastKey)
               => \E i \in 1..Len(history) : history[i].key = Val(snapLastKey))

(***************************************************************************)
(* Snapshot history: the stored entries                                    *)
(***************************************************************************)
\* C21: once a closed snapshot with key K is in the history, no later tracker step
\* changes the entry stored for K (counters, end timestamp, day index): while the
\* history has an entry for K it is the one first stored.
C21_ClosedSnapshotImmutable ==
    [][\A i \in 1..Len(history) :
          \A j \in 1..Len(history') :
              history'[j].key = history[i].key => history'[j] = history[i]]_vars

(***************************************************************************)
(* Role sync: failures of the downstream calls                             *)
(***************************************************************************)
\* A role-set was issued for the account at the latest pass and did not bring the
\* account to the roles of the rank: some role call of the role-set was rejected.
ApplyFailed(a) ==
    /\ lastCmd[a] # "nocmd"
    /\ roles[a] # ExactRoles(lastRank[a])

\* C22: when the role-set for an account fails at a pass, that pass does not advance
\* the account's settle state, and the role-set is attempted again at the next pass
\* that resolves the account while the roster still reports the same rank.
C22_FailedApplyRetried ==
    [][\A a \in linked :
          /\ ApplyFailed(a)' => pending'[a] = pending[a]
          /\ (ApplyFailed(a) /\ lastRank'[a] = lastRank[a] /\ a \in resolved')
                => lastCmd'[a] # "nocmd"]_vars

\* C23: whatever fails for an account at a pass (its member fetch, its role-set), the
\* pass is not aborted: its loop comes to every linked account, and every account it
\* resolves gets its settle state written and, when due, its role-set.
C23_FailSoftPerAccount ==
    [][\A a \in linked :
          /\ a \in reached'
          /\ a \in resolved' =>
                /\ pending'[a] = nextPending(roles[a], pending[a], lastRank'[a])
                /\ (lastCmd'[a] # "nocmd") = reachesApply(roles[a], pending[a], lastRank'[a])]_vars

\* C23 witness: at the latest pass the first account of the loop was not resolved or
\* its role-set failed, and the second account got its role-set.
C23_Witness ==
    /\ linked = AllAccounts
    /\ "u1" \notin resolved \/ ApplyFailed("u1")
    /\ "u2" \in resolved
    /\ lastCmd["u2"] # "nocmd"
    /\ roles["u2"] = ExactRoles(lastRank["u2"])

(***************************************************************************)
(* Role sync: the settle counter                                           *)
(***************************************************************************)
\* C24: every settle state a pass persists has a count in 1..5; for an account that
\* is not already correct, a pass agreeing with the stored desired role adds one to
\* the count, up to 5, and a pass disagreeing with it (or finding no settle state)
\* stores the new desired role with count 1.
C24_SettleCounterRule ==
    [][\A a \in linked :
          /\ IsDef(pending'[a]) => Val(pending'[a]).n \in 1..5
          /\ (a \in resolved' /\ ~alreadyCorrect(roles[a], lastRank'[a])) =>
                LET desired == desiredKeyFromClanRole(lastRank'[a])
                IN  IF IsDef(pending[a]) /\ Val(pending[a]).desired = desired
                    THEN pending'[a] =
                            Some([desired |-> desired,
                                  n |-> IF Val(pending[a]).n < 5 THEN Val(pending[a]).n + 1 ELSE 5])
                    ELSE pending'[a] = Some([desired |-> desired, n |-> 1])]_vars

\* C24 witness: an account that is still not correct after its role-sets has the
\* count at the cap.
C24_Witness ==
    \E a \in linked :
        /\ a \in resolved
        /\ ~alreadyCorrect(roles[a], lastRank[a])
        /\ lastCmd[a] # "nocmd"
        /\ pending[a] = Some([desired |-> desiredKeyFromClanRole(lastRank[a]), n |-> 5])

(***************************************************************************)
(* Rollover tracker: the first step, the advance, the migration guard      *)
(***************************************************************************)
\* A step leaves the tracker holding the period key and the capture of the payload it
\* observed, taken at the time of the step.
TrackingAdvanced ==
    /\ IsDef(periodLastKey')
    /\ IsDef(lastCapture')
    /\ LET capture == Val(lastCapture')
       IN  /\ capture.capturedAt = clock
           /\ capture.periodKey = Val(periodLastKey')
           /\ capture.periodKey =
                  currentPeriodKey(capture.payload, extractParticipants(capture.payload))
           /\ capture.snapshot = serializeParticipants(extractParticipants(capture.payload))

\* C25: the first tracker step ever (no war:period:last_key row) posts nothing,
\* appends nothing to the history, and persists the period key and the capture of the
\* payload it observed.
C25_FirstPoll ==
    [][(periodLastKey = None /\ clock' # clock) =>
          /\ posts' = posts
          /\ history' = history
          /\ appends' = appends
          /\ snapLastKey' = snapLastKey
          /\ TrackingAdvanced]_vars

\* C25 witness: one step has run, on a battle day; the key and the capture are held
\* and nothing was posted or appended.
C25_Witness ==
    /\ clock = 1
    /\ IsDef(periodLastKey)
    /\ IsDef(lastCapture)
    /\ isRegularWarBattleDay(Val(lastCapture).payload)
    /\ posts = <<>>
    /\ history = <<>>

\* C26: after every tracker step that runs (same key, rollover, suppressed rollover,
\* finalize that failed with a caught error) the persisted period key is the key
\* derived from the payload of the step and the persisted capture is that payload.
C26_TrackerAlwaysAdvances ==
    [][clock' # clock => TrackingAdvanced]_vars

\* C26 witness: a step closed a battle day, its finalize threw (nothing was posted
\* or written), and the tracker holds the key and the capture of that step.
C26_Witness ==
    /\ trackFail
    /\ Len(closed) = 1
    /\ posts = <<>>
    /\ snapLastKey = None
    /\ history = <<>>
    /\ IsDef(lastCapture)
    /\ Val(lastCapture).capturedAt = clock - 1
    /\ periodLastKey = Some(Val(lastCapture).periodKey)
    /\ periodLastKey # Some(closed[1])

\* The stored period key has no day component, and the capture held and the payload
\* of this step give the same defined day index, the same section and the same
\* period type.
MigrationOnlyChange ==
    /\ IsDef(periodLastKey)
    /\ IsDef(lastCapture)
    /\ IsDef(lastCapture')
    /\ Val(periodLastKey).dayIndex = None
    /\ LET prev == Val(lastCapture)
           payload == Val(lastCapture').payload
           prevDay == inferWarDayIndex(prev.payload, prev.snapshot)
           nowDay == inferWarDayIndex(payload, extractParticipants(payload))
       IN  /\ IsDef(prevDay)
           /\ prevDay = nowDay
           /\ toFiniteInt(prev.payload.sectionIndex) = toFiniteInt(payload.sectionIndex)
           /\ payloadPeriodType(prev.payload) = payloadPeriodType(payload)

\* C27: a key change that is migration-only posts nothing, appends nothing, leaves
\* the last-emitted key as it was, and the tracking advances to the new key.
C27_MigrationGuard ==
    [][(clock' # clock /\ MigrationOnlyChange) =>
          /\ posts' = posts
          /\ history' = history
          /\ appends' = appends
          /\ snapLastKey' = snapLastKey
          /\ lastSnapshot' = lastSnapshot
          /\ TrackingAdvanced]_vars

\* C27 witness: the first step after the upgrade saw the key change from the key
\* without a day to the key of day 1 of the same colosseum week; nothing was emitted.
C27_Witness ==
    /\ clock = 2
    /\ ~tickSame
    /\ ~tickEmits
    /\ ~trackFail
    /\ closed = <<>>
    /\ posts = <<>>
    /\ history = <<>>
    /\ snapLastKey = None
    /\ IsDef(periodLastKey)
    /\ Val(periodLastKey).periodType = "colosseum"
    /\ Val(periodLastKey).dayIndex = Some(1)
    /\ Val(lastCapture).capturedAt = 1

(***************************************************************************)
(* Snapshot history: one entry per key, and the eviction                   *)
(***************************************************************************)
\* C28: after any sequence of appends the history has no two entries with the same
\* key, and the entry kept for a key is the one appended last for it.
C28_HistoryDeduplicated ==
    /\ \A i, j \in 1..Len(store) : store[i].key = store[j].key => i = j
    /\ \A i \in 1..Len(store) : Some(store[i]) = storeLatest[store[i].key]

\* C28 witness: a key was appended a second time while other keys are stored, and the
\* history holds its later entry.
C28_Witness ==
    /\ storeRepeated
    /\ Len(store) >= 3
    /\ \E i \in 1..Len(store) : store[i].endAt > store[i].key

\* C29: the entries retained are those with the greatest end timestamps, whatever
\* the order of the appends: no entry evicted ends later than an entry retained.
C29_EvictsOldestByEndTimestamp ==
    \A k \in 1..MaxKeys :
        (/\ IsDef(storeLatest[k])
         /\ \A i \in 1..Len(store) : store[i].key # k)
            => \A i \in 1..Len(store) : store[i].endAt >= Val(storeLatest[k]).endAt

(***************************************************************************)
(* The period key: the explicit day index                                  *)
(***************************************************************************)
\* C30: when the payload carries an explicit day index (dayIndex, else warDay) within
\* 1..5, the day component of the period key is that index, for every period type;
\* an explicit index outside 1..5 is not used as the day component.
C30_ExplicitDayIndex ==
    IsDef(keyOut) =>
        LET explicit == IF IsDef(keyArg.dayIndex) THEN keyArg.dayIndex ELSE keyArg.warDay
        IN  IsDef(explicit) =>
                IF Val(explicit) \in 1..5
                THEN Val(keyOut).dayIndex = explicit
                ELSE Val(keyOut).dayIndex # explicit

(***************************************************************************)
(* The period key: deck counters matter for colosseum only                 *)
(***************************************************************************)
\* C31: for a periodType other than colosseum, two snapshots equal in periodType,
\* state, dayIndex, warDay and sectionIndex but different in the participants' deck
\* counters derive the same period key.
C31_FallbackOnlyForColosseum ==
    (/\ IsDef(keyOut)
     /\ IsDef(keyOtherOut)
     /\ payloadPeriodType(keyArg) # Some("colosseum"))
        => Val(keyOut) = Val(keyOtherOut)

\* C31 witness: a war-day payload without explicit day index whose day comes from the
\* section index, keyed for two snapshots whose counters lie in different days.
C31_Witness ==
    /\ IsDef(keyOut)
    /\ IsDef(keyOtherOut)
    /\ payloadPeriodType(keyArg) = Some("warday")
    /\ ~IsDef(directDayIndex(keyArg))
    /\ IsDef(Val(keyOut).dayIndex)
    /\ inferColosseumDay(extractParticipants(keyArg))
           # inferColosseumDay(extractParticipants(otherSnapshot))

(***************************************************************************)
(* Role sync: one account at a time                                        *)
(***************************************************************************)
\* C32: processing one account in a role-sync pass writes only that account's
\* settle-state key and changes only that account's roles; the linked-account table
\* and every other account's settle state and roles are left unchanged.
C32_AccountIndependence ==
    [][/\ linked' = linked
       /\ \A b \in AllAccounts :
             (roles'[b] # roles[b] \/ pending'[b] # pending[b]) => loopAt' = Some(b)]_vars

\* C32 witness: the iteration for the second account has changed that account's roles
\* while the first account holds roles and a settle state of its own.
C32_Witness ==
    /\ loopAt = Some("u2")
    /\ roles["u2"] # {}
    /\ roles["u1"] # {}
    /\ IsDef(pending["u1"])
    /\ IsDef(pending["u2"])
    /\ pending["u1"] # pending["u2"]

(***************************************************************************)
(* Open-spot announcements                                                 *)
(***************************************************************************)
\* The open slots of the previous completed poll, 0 before the first.
PreviousOpenSlots == IF IsDef(spotsOpen) THEN Val(spotsOpen) ELSE 0

C34_OneReminderPerDate ==
    \A d \in 1..MaxDates : remSent[d] <= 1

(***************************************************************************)
(* Rollover tracker: periods that are no battle days                       *)
(***************************************************************************)
\* C35: when the captured payload of the period that closes is not a regular battle
\* day, the rollover produces no post and no history append and leaves the
\* last-emitted key unchanged.
C35_NonBattleClosesSilently ==
    [][(/\ clock' # clock
        /\ IsDef(periodLastKey)
        /\ IsDef(lastCapture)
        /\ periodLastKey' # periodLastKey
        /\ ~isRegularWarBattleDay(Val(lastCapture).payload))
          => /\ posts' = posts
             /\ history' = history
             /\ snapLastKey' = snapLastKey]_vars

\* C35 witness: the poll that left a training period for another period, with nothing
\* posted, nothing appended and no last-emitted key.
C35_Witness ==
    /\ phase = "AB"
    /\ ~tickSame
    /\ IsDef(lastA)
    /\ ~isRegularWarBattleDay(Val(lastA).payload)
    /\ Val(lastA).key # Val(periodLastKey)
    /\ posts = <<>>
    /\ history = <<>>
    /\ snapLastKey = None

(***************************************************************************)
(* Snapshot history: the day index of an entry and of its key              *)
(***************************************************************************)
\* C36: the dayIndex recorded in a history entry equals the day component of the
\* period key under which the period was tracked and closed, and is absent exactly
\* when that component is 'na'.
C36_EntryDayMatchesKey ==
    \A i \in 1..Len(history) : history[i].dayIndex = history[i].key.dayIndex

(***************************************************************************)
(* The battle-day predicate and the day inference                          *)
(***************************************************************************)
\* C37: for every payload whose periodType is warDay or colosseum and for which
\* inferWarDayIndex returns a day index in 1..5, isRegularWarBattleDay returns true.
C37_BattleDayAgreesWithInference ==
    (/\ IsDef(keyJudged)
     /\ payloadPeriodType(keyArg) \in {Some("warday"), Some("colosseum")}
     /\ IsDef(Val(keyJudged).day)
     /\ Val(Val(keyJudged).day) \in 1..5)
        => Val(keyJudged).battle

(***************************************************************************)
(* The migration guard and the keys of the current deriver                 *)
(***************************************************************************)
\* C38: when the stored key is the one currentPeriodKey derives from the stored
\* payload and counters, a later change of key is never classified as migration-only.
C38_GuardSparesCurrentKeys ==
    [][(/\ clock' # clock
        /\ IsDef(periodLastKey)
        /\ IsDef(lastCapture)
        /\ IsDef(lastCapture')
        /\ periodLastKey = Some(currentPeriodKey(Val(lastCapture).payload,
                                                 Val(lastCapture).snapshot))
        /\ periodLastKey' # periodLastKey)
          => ~isKeyMigrationOnly(Val(periodLastKey), Val(lastCapture).payload,
                                 Val(lastCapture).snapshot, Val(lastCapture').payload,
                                 Val(lastCapture').snapshot)]_vars

\* C38 witness: a war day tracked under a key without a day index was left for another
\* period, and its closing snapshot was appended under that key.
C38_Witness ==
    /\ ~tickSame
    /\ tickEmits
    /\ IsDef(periodLastKey)
    /\ Len(history) = 1
    /\ history[1].key.dayIndex = None
    /\ history[1].key # Val(periodLastKey)
    /\ periodLastKey = Some(currentPeriodKey(Val(lastCapture).payload,
                                             Val(lastCapture).snapshot))

(***************************************************************************)
(* Specifications                                                          *)
(***************************************************************************)
\* Role sync.
Init ==
    /\ RoleInit
    /\ InferIdle
    /\ TrackerInit
    /\ ReplayIdle
    /\ WorldIdle
    /\ StoreIdle
    /\ QueryIdle
    /\ KeyIdle
    /\ LoopIdle
    /\ SpotsIdle
    /\ ReminderIdle
    /\ AsyncIdle
    /\ UpstreamIdle

Next ==
    \/ SyncRolesOnce /\ UNCHANGED <<inferVars, trackerVars, replayVars, worldVars, storeVars, queryVars, keyVars, loopVars, spotsVars, reminderVars, asyncVars, upstreamVars>>

Spec == Init /\ [][Next]_vars

\* Role sync over two linked accounts.
InitPair ==
    /\ PairInit
    /\ InferIdle
    /\ TrackerInit
    /\ ReplayIdle
    /\ WorldIdle
    /\ StoreIdle
    /\ QueryIdle
    /\ KeyIdle
    /\ LoopIdle
    /\ SpotsIdle
    /\ ReminderIdle
    /\ AsyncIdle
    /\ UpstreamIdle

NextPair ==
    \/ SyncPairOnce /\ UNCHANGED <<inferVars, trackerVars, replayVars, worldVars, storeVars, queryVars, keyVars, loopVars, spotsVars, reminderVars, asyncVars, upstreamVars>>

SpecPair == InitPair /\ [][NextPair]_vars

\* One role-sync pass after another, link by link.
InitLoop ==
    /\ PairInit
    /\ LoopInit
    /\ InferIdle
    /\ TrackerInit
    /\ ReplayIdle
    /\ WorldIdle
    /\ StoreIdle
    /\ QueryIdle
    /\ KeyIdle
    /\ SpotsIdle
    /\ ReminderIdle
    /\ AsyncIdle
    /\ UpstreamIdle

NextLoop ==
    \/ SyncPassBegins /\ UNCHANGED <<inferVars, trackerVars, replayVars, worldVars, storeVars, queryVars, keyVars, spotsVars, reminderVars, asyncVars, upstreamVars>>
    \/ SyncLink /\ UNCHANGED <<inferVars, trackerVars, replayVars, worldVars, storeVars, queryVars, keyVars, spotsVars, reminderVars, asyncVars, upstreamVars>>

SpecLoop == InitLoop /\ [][NextLoop]_vars

\* The open-spot polls.
InitSpots ==
    /\ SpotsInit
    /\ RoleIdle
    /\ InferIdle
    /\ TrackerInit
    /\ ReplayIdle
    /\ WorldIdle
    /\ StoreIdle
    /\ QueryIdle
    /\ KeyIdle
    /\ LoopIdle
    /\ ReminderIdle
    /\ AsyncIdle
    /\ UpstreamIdle

NextSpots ==
    \/ PollEmptySpotsOnce /\ UNCHANGED <<roleVars, inferVars, trackerVars, replayVars, worldVars, storeVars, queryVars, keyVars, loopVars, reminderVars, asyncVars, upstreamVars>>
    \/ PollEmptySpotsRejected /\ UNCHANGED <<roleVars, inferVars, trackerVars, replayVars, worldVars, storeVars, queryVars, keyVars, loopVars, reminderVars, asyncVars, upstreamVars>>

SpecSpots == InitSpots /\ [][NextSpots]_vars

\* The time-based war-day reminder over ticks, restarts and the clock.
InitReminder ==
    /\ ReminderInit
    /\ RoleIdle
    /\ InferIdle
    /\ TrackerInit
    /\ ReplayIdle
    /\ WorldIdle
    /\ StoreIdle
    /\ QueryIdle
    /\ KeyIdle
    /\ LoopIdle
    /\ SpotsIdle
    /\ AsyncIdle
    /\ UpstreamIdle

NextReminder ==
    \/ ClockAdvances /\ UNCHANGED <<roleVars, inferVars, trackerVars, replayVars, worldVars, storeVars, queryVars, keyVars, loopVars, spotsVars, asyncVars, upstreamVars>>
    \/ ReminderTickBegins /\ UNCHANGED <<roleVars, inferVars, trackerVars, replayVars, worldVars, storeVars, queryVars, keyVars, loopVars, spotsVars, asyncVars, upstreamVars>>
    \/ ReminderTickEnds /\ UNCHANGED <<roleVars, inferVars, trackerVars, replayVars, worldVars, storeVars, queryVars, keyVars, loopVars, spotsVars, asyncVars, upstreamVars>>
    \/ ReminderRestart /\ UNCHANGED <<roleVars, inferVars, trackerVars, replayVars, worldVars, storeVars, queryVars, keyVars, loopVars, spotsVars, asyncVars, upstreamVars>>

SpecReminder == InitReminder /\ [][NextReminder]_vars

\* inferWarDayIndex on colosseum snapshots.
InitInfer ==
    /\ InferInit
    /\ RoleIdle
    /\ TrackerInit
    /\ ReplayIdle
    /\ WorldIdle
    /\ StoreIdle
    /\ QueryIdle
    /\ KeyIdle
    /\ LoopIdle
    /\ SpotsIdle
    /\ ReminderIdle
    /\ AsyncIdle
    /\ UpstreamIdle

NextInfer ==
    \/ Infer /\ UNCHANGED <<roleVars, trackerVars, replayVars, worldVars, storeVars, queryVars, keyVars, loopVars, spotsVars, reminderVars, asyncVars, upstreamVars>>

SpecInfer == InitInfer /\ [][NextInfer]_vars

\* The rollover tracker over the war polls and startups.
InitTracker ==
    /\ TrackerInit
    /\ RoleIdle
    /\ InferIdle
    /\ ReplayIdle
    /\ WorldIdle
    /\ StoreIdle
    /\ QueryIdle
    /\ KeyIdle
    /\ LoopIdle
    /\ SpotsIdle
    /\ ReminderIdle
    /\ AsyncIdle
    /\ UpstreamIdle

NextTracker ==
    \/ PollWarOnce /\ UNCHANGED <<roleVars, inferVars, replayVars, worldVars, storeVars, queryVars, keyVars, loopVars, spotsVars, reminderVars, asyncVars, upstreamVars>>
    \/ PollWarAbandoned /\ UNCHANGED <<roleVars, inferVars, replayVars, worldVars, storeVars, queryVars, keyVars, loopVars, spotsVars, reminderVars, asyncVars, upstreamVars>>
    \/ PrimeWarDaySnapshotSchedule /\ UNCHANGED <<roleVars, inferVars, replayVars, worldVars, storeVars, queryVars, keyVars, loopVars, spotsVars, reminderVars, asyncVars, upstreamVars>>

SpecTracker == InitTracker /\ [][NextTracker]_vars

\* The rollover tracker over the shapes of payload.
InitShapes ==
    /\ TrackerInit
    /\ RoleIdle
    /\ InferIdle
    /\ ReplayIdle
    /\ WorldIdle
    /\ StoreIdle
    /\ QueryIdle
    /\ KeyIdle
    /\ LoopIdle
    /\ SpotsIdle
    /\ ReminderIdle
    /\ AsyncIdle
    /\ UpstreamIdle

NextShapes ==
    \/ PollShapes /\ UNCHANGED <<roleVars, inferVars, replayVars, worldVars, storeVars, queryVars, keyVars, loopVars, spotsVars, reminderVars, asyncVars, upstreamVars>>

SpecShapes == InitShapes /\ [][NextShapes]_vars

\* The rollover tracker started on the rows of an older version.
InitUpgrade ==
    /\ UpgradeInit
    /\ RoleIdle
    /\ InferIdle
    /\ ReplayIdle
    /\ WorldIdle
    /\ StoreIdle
    /\ QueryIdle
    /\ KeyIdle
    /\ LoopIdle
    /\ SpotsIdle
    /\ ReminderIdle
    /\ AsyncIdle
    /\ UpstreamIdle

NextUpgrade ==
    \/ PollWarOnce /\ UNCHANGED <<roleVars, inferVars, replayVars, worldVars, storeVars, queryVars, keyVars, loopVars, spotsVars, reminderVars, asyncVars, upstreamVars>>
    \/ PrimeAfterUpgrade /\ UNCHANGED <<roleVars, inferVars, replayVars, worldVars, storeVars, queryVars, keyVars, loopVars, spotsVars, reminderVars, asyncVars, upstreamVars>>

SpecUpgrade == InitUpgrade /\ [][NextUpgrade]_vars

\* currentPeriodKey on payloads with explicit day fields.
InitKey ==
    /\ KeyInit
    /\ RoleIdle
    /\ InferIdle
    /\ TrackerInit
    /\ ReplayIdle
    /\ WorldIdle
    /\ StoreIdle
    /\ QueryIdle
    /\ LoopIdle
    /\ SpotsIdle
    /\ ReminderIdle
    /\ AsyncIdle
    /\ UpstreamIdle

NextKey ==
    \/ CurrentPeriodKey /\ UNCHANGED <<roleVars, inferVars, trackerVars, replayVars, worldVars, storeVars, queryVars, loopVars, spotsVars, reminderVars, asyncVars, upstreamVars>>
    \/ CurrentPeriodKeyOther /\ UNCHANGED <<roleVars, inferVars, trackerVars, replayVars, worldVars, storeVars, queryVars, loopVars, spotsVars, reminderVars, asyncVars, upstreamVars>>
    \/ JudgeBattleDay /\ UNCHANGED <<roleVars, inferVars, trackerVars, replayVars, worldVars, storeVars, queryVars, loopVars, spotsVars, reminderVars, asyncVars, upstreamVars>>

SpecKey == InitKey /\ [][NextKey]_vars

\* The rollover tracker given one snapshot sequence, then the same sequence again.
InitReplay ==
    /\ ReplayInit
    /\ TrackerInit
    /\ RoleIdle
    /\ InferIdle
    /\ WorldIdle
    /\ StoreIdle
    /\ QueryIdle
    /\ KeyIdle
    /\ LoopIdle
    /\ SpotsIdle
    /\ ReminderIdle
    /\ AsyncIdle
    /\ UpstreamIdle

NextReplay ==
    \/ ReplayPoll /\ UNCHANGED <<roleVars, inferVars, worldVars, storeVars, queryVars, keyVars, loopVars, spotsVars, reminderVars, asyncVars, upstreamVars>>
    \/ ReplayRestart /\ UNCHANGED <<roleVars, inferVars, trackerVars, worldVars, storeVars, queryVars, keyVars, loopVars, spotsVars, reminderVars, asyncVars, upstreamVars>>

SpecReplay == InitReplay /\ [][NextReplay]_vars

\* The period key over the polls of a colosseum week.
InitWorld ==
    /\ WorldInit
    /\ RoleIdle
    /\ InferIdle
    /\ TrackerInit
    /\ ReplayIdle
    /\ StoreIdle
    /\ QueryIdle
    /\ KeyIdle
    /\ LoopIdle
    /\ SpotsIdle
    /\ ReminderIdle
    /\ AsyncIdle
    /\ UpstreamIdle

NextWorld ==
    \/ UseDeck /\ UNCHANGED <<roleVars, inferVars, trackerVars, replayVars, storeVars, queryVars, keyVars, loopVars, spotsVars, reminderVars, asyncVars, upstreamVars>>
    \/ DayBoundary /\ UNCHANGED <<roleVars, inferVars, trackerVars, replayVars, storeVars, queryVars, keyVars, loopVars, spotsVars, reminderVars, asyncVars, upstreamVars>>
    \/ PollPeriodKey /\ UNCHANGED <<roleVars, inferVars, trackerVars, replayVars, storeVars, queryVars, keyVars, loopVars, spotsVars, reminderVars, asyncVars, upstreamVars>>

SpecWorld == InitWorld /\ [][NextWorld]_vars

\* The snapshot history store over a sequence of appends.
InitStore ==
    /\ StoreInit
    /\ RoleIdle
    /\ InferIdle
    /\ TrackerInit
    /\ ReplayIdle
    /\ WorldIdle
    /\ QueryIdle
    /\ KeyIdle
    /\ LoopIdle
    /\ SpotsIdle
    /\ ReminderIdle
    /\ AsyncIdle
    /\ UpstreamIdle

NextStore ==
    \/ AppendSnapshotHistory /\ UNCHANGED <<roleVars, inferVars, trackerVars, replayVars, worldVars, queryVars, keyVars, loopVars, spotsVars, reminderVars, asyncVars, upstreamVars>>

SpecStore == InitStore /\ [][NextStore]_vars

\* The days-ago lookup over the stored histories.
InitQuery ==
    /\ QueryInit
    /\ RoleIdle
    /\ InferIdle
    /\ TrackerInit
    /\ ReplayIdle
    /\ WorldIdle
    /\ StoreIdle
    /\ KeyIdle
    /\ LoopIdle
    /\ SpotsIdle
    /\ ReminderIdle
    /\ AsyncIdle
    /\ UpstreamIdle

NextQuery ==
    \/ ResolveDaysAgo /\ UNCHANGED <<roleVars, inferVars, trackerVars, replayVars, worldVars, storeVars, keyVars, loopVars, spotsVars, reminderVars, asyncVars, upstreamVars>>

SpecQuery == InitQuery /\ [][NextQuery]_vars

\* The callbacks of one process, step by step between their awaits.
InitAsync ==
    /\ AsyncInit
    /\ TrackerInit
    /\ RoleIdle
    /\ InferIdle
    /\ ReplayIdle
    /\ WorldIdle
    /\ StoreIdle
    /\ QueryIdle
    /\ KeyIdle
    /\ LoopIdle
    /\ SpotsIdle
    /\ ReminderIdle
    /\ UpstreamIdle

NextAsync ==
    \/ UpstreamRollover /\ AsyncFrame /\ UNCHANGED <<roleVars, inferVars, replayVars, worldVars, storeVars, queryVars, keyVars, loopVars, spotsVars, reminderVars, upstreamVars>>
    \/ CronWarPoll /\ AsyncFrame /\ UNCHANGED <<roleVars, inferVars, replayVars, worldVars, storeVars, queryVars, keyVars, loopVars, spotsVars, reminderVars, upstreamVars>>
    \/ WarFetchRejects /\ AsyncFrame /\ UNCHANGED <<roleVars, inferVars, replayVars, worldVars, storeVars, queryVars, keyVars, loopVars, spotsVars, reminderVars, upstreamVars>>
    \/ WarPayloadFetched /\ AsyncFrame /\ UNCHANGED <<roleVars, inferVars, replayVars, worldVars, storeVars, queryVars, keyVars, loopVars, spotsVars, reminderVars, upstreamVars>>
    \/ WarSummarySends /\ AsyncFrame /\ UNCHANGED <<roleVars, inferVars, replayVars, worldVars, storeVars, queryVars, keyVars, loopVars, spotsVars, reminderVars, upstreamVars>>
    \/ WarFinalizeWrites /\ AsyncFrame /\ UNCHANGED <<roleVars, inferVars, replayVars, worldVars, storeVars, queryVars, keyVars, loopVars, spotsVars, reminderVars, upstreamVars>>
    \/ Restart /\ AsyncFrame /\ UNCHANGED <<roleVars, inferVars, replayVars, worldVars, storeVars, queryVars, keyVars, loopVars, spotsVars, reminderVars, upstreamVars>>
    \/ CrashInFinalize /\ AsyncFrame /\ UNCHANGED <<roleVars, inferVars, replayVars, worldVars, storeVars, queryVars, keyVars, loopVars, spotsVars, reminderVars, upstreamVars>>
    \/ StartupResyncBegins /\ UNCHANGED <<roleVars, inferVars, replayVars, worldVars, storeVars, queryVars, keyVars, loopVars, spotsVars, reminderVars, upstreamVars>>
    \/ StartupResyncEnds /\ UNCHANGED <<roleVars, inferVars, replayVars, worldVars, storeVars, queryVars, keyVars, loopVars, spotsVars, reminderVars, upstreamVars>>
    \/ CronRoleSyncBegins /\ UNCHANGED <<roleVars, inferVars, replayVars, worldVars, storeVars, queryVars, keyVars, loopVars, spotsVars, reminderVars, upstreamVars>>
    \/ CronRoleSyncEnds /\ UNCHANGED <<roleVars, inferVars, replayVars, worldVars, storeVars, queryVars, keyVars, loopVars, spotsVars, reminderVars, upstreamVars>>

SpecAsync == InitAsync /\ [][NextAsync]_vars

\* The two jobs over ticks whose upstream fetch may fail.
InitUpstream ==
    /\ UpstreamRoleInit \/ RoleIdle
    /\ TrackerInit
    /\ UpstreamIdle
    /\ InferIdle
    /\ ReplayIdle
    /\ WorldIdle
    /\ StoreIdle
    /\ QueryIdle
    /\ KeyIdle
    /\ LoopIdle
    /\ SpotsIdle
    /\ ReminderIdle
    /\ AsyncIdle

NextUpstream ==
    \/ RoleSyncTick /\ UNCHANGED <<inferVars, trackerVars, replayVars, worldVars, storeVars, queryVars, keyVars, loopVars, spotsVars, reminderVars, asyncVars>>
    \/ RoleSyncTickAbandoned /\ UNCHANGED <<inferVars, trackerVars, replayVars, worldVars, storeVars, queryVars, keyVars, loopVars, spotsVars, reminderVars, asyncVars>>
    \/ WarPollTick /\ UNCHANGED <<roleVars, inferVars, replayVars, worldVars, storeVars, queryVars, keyVars, loopVars, spotsVars, reminderVars, asyncVars>>
    \/ WarPollTickAbandoned /\ UNCHANGED <<roleVars, inferVars, replayVars, worldVars, storeVars, queryVars, keyVars, loopVars, spotsVars, reminderVars, asyncVars>>

SpecUpstream == InitUpstream /\ [][NextUpstream]_vars

====
